---- MODULE Spec2Model ----
(***************************************************************************)
(* Canonicalization-and-validation core of the flight-activity pipeline:   *)
(* the header resolver (agents/ingest/app/schemas.py, utils.py) and the    *)
(* normalization engine (agents/ingest/app/normalization.py), under Spec,  *)
(* and the validation engine (agents/quality/app/pipeline.py and checks),  *)
(* under QualitySpec; the persistence of a validation run                  *)
(* (agents/quality/app/repository.py) next to the issues the geo pipeline  *)
(* writes (agents/geo/app), under PersistSpec.                             *)
(*                                                                         *)
(* Text is modelled as follows.  A column header is a TLA+ string; its     *)
(* characters are given by Spelling, one token per character ("f", " ",    *)
(* "U+043D" for a non-ASCII code point), and normalize_header is computed  *)
(* on those characters.  A header written in Cyrillic carries an ASCII     *)
(* label ("cyr:shirota") because module text is ASCII only.                *)
(***************************************************************************)
EXTENDS Integers, Sequences, FiniteSets, TLC

VARIABLES
  data,             \* the table handed to the current call of normalize_records
  report_timezone,  \* the timezone hint (NoTz when absent)
  pc,               \* "ready" -> "normalized" -> "renormalized"
  prepared,         \* the call's frame just before the invalid rows are filtered
  result,           \* what the call returned or raised
  previous,         \* what the call before it returned (NoResult at first)
  flights,          \* the table the loader hands to run_pipeline
  checks,           \* run_pipeline's checks argument (<<>> when not given)
  active_checks,    \* run_pipeline's active_checks, by check name
  results,          \* the CheckResults run_checks has collected so far
  report,           \* the QualityReport of run_pipeline, or what it raised
  qpc,              \* "start" -> "run_checks" -> "reported" or "raised"
  dataset,          \* run_pipeline's dataset: the version name, "" when none
  repository,       \* whether run_pipeline is given a repository
  dry_run,          \* run_pipeline's dry_run argument
  db,               \* the committed rows of the database
  conn,             \* the connection of repository.connection() and its
                    \* uncommitted view of the database
  oplog             \* the repository operations performed so far, in order

normalizer_vars == <<data, report_timezone, pc, prepared, result, previous>>

quality_vars == <<flights, checks, active_checks, results, report, qpc>>

repository_vars == <<dataset, repository, dry_run, db, conn, oplog>>

vars == <<normalizer_vars, quality_vars, repository_vars>>

-----------------------------------------------------------------------------
(* Generic helpers                                                         *)

Range(s) == {s[i] : i \in 1..Len(s)}

IsDistinct(s) == \A i, j \in 1..Len(s) : s[i] = s[j] => i = j

IndexOf(s, x) == CHOOSE i \in 1..Len(s) : s[i] = x

-----------------------------------------------------------------------------
(* Characters: str.lower(), str.strip() and the class [0-9a-zA-Z]          *)

DigitChars == {"0", "1", "2", "3", "4", "5", "6", "7", "8", "9"}

AsciiLower ==
  <<"a", "b", "c", "d", "e", "f", "g", "h", "i", "j", "k", "l", "m",
    "n", "o", "p", "q", "r", "s", "t", "u", "v", "w", "x", "y", "z">>

AsciiUpper ==
  <<"A", "B", "C", "D", "E", "F", "G", "H", "I", "J", "K", "L", "M",
    "N", "O", "P", "Q", "R", "S", "T", "U", "V", "W", "X", "Y", "Z">>

\* U+0410..U+042F and their lower-case forms U+0430..U+044F
CyrillicUpper == <<"U+0410", "U+0411", "U+0412", "U+0413", "U+0414",
    "U+0415", "U+0416", "U+0417", "U+0418", "U+0419", "U+041A", "U+041B",
    "U+041C", "U+041D", "U+041E", "U+041F", "U+0420", "U+0421", "U+0422",
    "U+0423", "U+0424", "U+0425", "U+0426", "U+0427", "U+0428", "U+0429",
    "U+042A", "U+042B", "U+042C", "U+042D", "U+042E", "U+042F">>

CyrillicLower == <<"U+0430", "U+0431", "U+0432", "U+0433", "U+0434",
    "U+0435", "U+0436", "U+0437", "U+0438", "U+0439", "U+043A", "U+043B",
    "U+043C", "U+043D", "U+043E", "U+043F", "U+0440", "U+0441", "U+0442",
    "U+0443", "U+0444", "U+0445", "U+0446", "U+0447", "U+0448", "U+0449",
    "U+044A", "U+044B", "U+044C", "U+044D", "U+044E", "U+044F">>


WhitespaceChars == {" ", "\t"}

\* str.lower() on one character
LowerChar(c) ==
  IF c \in Range(AsciiUpper) THEN AsciiLower[IndexOf(AsciiUpper, c)]
  ELSE IF c \in Range(CyrillicUpper) THEN CyrillicLower[IndexOf(CyrillicUpper, c)]
  ELSE c

\* the complement of the class in _HEADER_CLEAN_RE = [^0-9a-zA-Z]+
IsAsciiAlnum(c) == c \in DigitChars \cup Range(AsciiLower) \cup Range(AsciiUpper)

RECURSIVE DropLeading(_, _)
DropLeading(s, chars) ==
  IF s # <<>> /\ Head(s) \in chars THEN DropLeading(Tail(s), chars) ELSE s

RECURSIVE DropTrailing(_, _)
DropTrailing(s, chars) ==
  IF s # <<>> /\ s[Len(s)] \in chars
  THEN DropTrailing(SubSeq(s, 1, Len(s) - 1), chars)
  ELSE s

\* str.strip(chars)
StripChars(s, chars) == DropTrailing(DropLeading(s, chars), chars)

\* _HEADER_CLEAN_RE.sub("_", s): every maximal run of characters outside
\* [0-9a-zA-Z] becomes one "_"
RECURSIVE SubNonAlnum(_)
SubNonAlnum(s) ==
  IF s = <<>> THEN <<>>
  ELSE IF IsAsciiAlnum(Head(s)) THEN <<Head(s)>> \o SubNonAlnum(Tail(s))
  ELSE LET rest == Tail(s)
           run == CHOOSE n \in 0..Len(rest) :
                    /\ \A i \in 1..n : ~IsAsciiAlnum(rest[i])
                    /\ (n < Len(rest) => IsAsciiAlnum(rest[n + 1]))
       IN <<"_">> \o SubNonAlnum(SubSeq(rest, run + 1, Len(rest)))

\* re.sub(r"__+", "_", s)
RECURSIVE CollapseUnderscores(_)
CollapseUnderscores(s) ==
  IF Len(s) < 2 THEN s
  ELSE IF s[1] = "_" /\ s[2] = "_" THEN CollapseUnderscores(Tail(s))
  ELSE <<Head(s)>> \o CollapseUnderscores(Tail(s))

\* utils.normalize_header, on the characters of the header
normalize_header(value) ==
  LET lowered == [i \in 1..Len(StripChars(value, WhitespaceChars)) |->
                    LowerChar(StripChars(value, WhitespaceChars)[i])]
      simplified == SubNonAlnum(lowered)
  IN CollapseUnderscores(StripChars(simplified, {"_"}))

-----------------------------------------------------------------------------
(* schemas.py: the canonical schema and the alias table                    *)

CANONICAL_ORDER ==
  <<"flight_id", "surrogate_id", "start_time_utc", "end_time_utc",
    "duration_minutes", "region_code", "region_name", "latitude", "longitude",
    "vehicle_category", "operator_type", "flight_purpose", "payload_type",
    "superseded">>

NUMERIC_FIELDS == <<"duration_minutes", "latitude", "longitude">>

CANONICAL_STRINGS ==
  <<"flight_id", "surrogate_id", "region_code", "region_name",
    "vehicle_category", "operator_type", "flight_purpose", "payload_type">>

BOOLEAN_FIELDS == <<"superseded">>

\* COLUMN_ALIASES as (canonical, alias) pairs in the order of the source. The
\* aliases of one field are a Python set, iterated in no fixed order: that
\* order cannot change the map, as two aliases with one normalized form that
\* belong to different fields are written in the fixed order of the fields.
AliasPairs ==
  << <<"flight_id", "flight_id">>,
     <<"flight_id", "flightno">>,
     <<"flight_id", "flight_no">>,
     <<"flight_id", "flightnumber">>,
     <<"flight_id", "cyr:nomerpoleta">>,
     <<"flight_id", "flight">>,
     <<"start_time", "start_time">>,
     <<"start_time", "start">>,
     <<"start_time", "start_datetime">>,
     <<"start_time", "departure_time">>,
     <<"start_time", "cyr:vremyanchala">>,
     <<"start_time", "cyr:vremenavyleta">>,
     <<"end_time", "end_time">>,
     <<"end_time", "end">>,
     <<"end_time", "end_datetime">>,
     <<"end_time", "arrival_time">>,
     <<"end_time", "cyr:vremyazaversheniya">>,
     <<"end_time", "cyr:vremeposadki">>,
     <<"duration_minutes", "duration">>,
     <<"duration_minutes", "duration_minutes">>,
     <<"duration_minutes", "duration_min">>,
     <<"duration_minutes", "cyr:prodolzhitelnost">>,
     <<"duration_minutes", "cyr:dlitelnostmin">>,
     <<"region_code", "region_code">>,
     <<"region_code", "region">>,
     <<"region_code", "regionid">>,
     <<"region_code", "cyr:kodregiona">>,
     <<"region_name", "region_name">>,
     <<"region_name", "region_title">>,
     <<"region_name", "cyr:nazvanieregiona">>,
     <<"latitude", "latitude">>,
     <<"latitude", "lat">>,
     <<"latitude", "cyr:shirota">>,
     <<"longitude", "longitude">>,
     <<"longitude", "lon">>,
     <<"longitude", "lng">>,
     <<"longitude", "cyr:dolgota">>,
     <<"vehicle_category", "vehicle_category">>,
     <<"vehicle_category", "uav_type">>,
     <<"vehicle_category", "cyr:tipbpla">>,
     <<"operator_type", "operator_type">>,
     <<"operator_type", "operator">>,
     <<"operator_type", "cyr:tipoperatora">>,
     <<"flight_purpose", "flight_purpose">>,
     <<"flight_purpose", "purpose">>,
     <<"flight_purpose", "cyr:tselvyleta">>,
     <<"payload_type", "payload_type">>,
     <<"payload_type", "payload">>,
     <<"payload_type", "cyr:tipnagruzki">> >>

\* the characters of every header of the model's universe
Spelling(h) ==
  CASE h = "flight_id" -> <<"f", "l", "i", "g", "h", "t", "_", "i", "d">>
    [] h = "flightno" -> <<"f", "l", "i", "g", "h", "t", "n", "o">>
    [] h = "flight_no" -> <<"f", "l", "i", "g", "h", "t", "_", "n", "o">>
    [] h = "flightnumber" -> <<"f", "l", "i", "g", "h", "t", "n", "u", "m",
         "b", "e", "r">>
    [] h = "cyr:nomerpoleta" -> <<"U+043D", "U+043E", "U+043C", "U+0435",
         "U+0440", "U+043F", "U+043E", "U+043B", "U+0435", "U+0442",
         "U+0430">>
    [] h = "flight" -> <<"f", "l", "i", "g", "h", "t">>
    [] h = "start_time" -> <<"s", "t", "a", "r", "t", "_", "t", "i", "m",
         "e">>
    [] h = "start" -> <<"s", "t", "a", "r", "t">>
    [] h = "start_datetime" -> <<"s", "t", "a", "r", "t", "_", "d", "a", "t",
         "e", "t", "i", "m", "e">>
    [] h = "departure_time" -> <<"d", "e", "p", "a", "r", "t", "u", "r", "e",
         "_", "t", "i", "m", "e">>
    [] h = "cyr:vremyanchala" -> <<"U+0432", "U+0440", "U+0435", "U+043C",
         "U+044F", "U+043D", "U+0447", "U+0430", "U+043B", "U+0430">>
    [] h = "cyr:vremenavyleta" -> <<"U+0432", "U+0440", "U+0435", "U+043C",
         "U+0435", "U+043D", "U+0430", "U+0432", "U+044B", "U+043B",
         "U+0435", "U+0442", "U+0430">>
    [] h = "end_time" -> <<"e", "n", "d", "_", "t", "i", "m", "e">>
    [] h = "end" -> <<"e", "n", "d">>
    [] h = "end_datetime" -> <<"e", "n", "d", "_", "d", "a", "t", "e", "t",
         "i", "m", "e">>
    [] h = "arrival_time" -> <<"a", "r", "r", "i", "v", "a", "l", "_", "t",
         "i", "m", "e">>
    [] h = "cyr:vremyazaversheniya" -> <<"U+0432", "U+0440", "U+0435",
         "U+043C", "U+044F", "U+0437", "U+0430", "U+0432", "U+0435",
         "U+0440", "U+0448", "U+0435", "U+043D", "U+0438", "U+044F">>
    [] h = "cyr:vremeposadki" -> <<"U+0432", "U+0440", "U+0435", "U+043C",
         "U+0435", "U+043F", "U+043E", "U+0441", "U+0430", "U+0434",
         "U+043A", "U+0438">>
    [] h = "duration" -> <<"d", "u", "r", "a", "t", "i", "o", "n">>
    [] h = "duration_minutes" -> <<"d", "u", "r", "a", "t", "i", "o", "n",
         "_", "m", "i", "n", "u", "t", "e", "s">>
    [] h = "duration_min" -> <<"d", "u", "r", "a", "t", "i", "o", "n", "_",
         "m", "i", "n">>
    [] h = "cyr:prodolzhitelnost" -> <<"U+043F", "U+0440", "U+043E",
         "U+0434", "U+043E", "U+043B", "U+0436", "U+0438", "U+0442",
         "U+0435", "U+043B", "U+044C", "U+043D", "U+043E", "U+0441",
         "U+0442", "U+044C">>
    [] h = "cyr:dlitelnostmin" -> <<"U+0434", "U+043B", "U+0438", "U+0442",
         "U+0435", "U+043B", "U+044C", "U+043D", "U+043E", "U+0441",
         "U+0442", "U+044C", "U+043C", "U+0438", "U+043D">>
    [] h = "region_code" -> <<"r", "e", "g", "i", "o", "n", "_", "c", "o",
         "d", "e">>
    [] h = "region" -> <<"r", "e", "g", "i", "o", "n">>
    [] h = "regionid" -> <<"r", "e", "g", "i", "o", "n", "i", "d">>
    [] h = "cyr:kodregiona" -> <<"U+043A", "U+043E", "U+0434", "U+0440",
         "U+0435", "U+0433", "U+0438", "U+043E", "U+043D", "U+0430">>
    [] h = "region_name" -> <<"r", "e", "g", "i", "o", "n", "_", "n", "a",
         "m", "e">>
    [] h = "region_title" -> <<"r", "e", "g", "i", "o", "n", "_", "t", "i",
         "t", "l", "e">>
    [] h = "cyr:nazvanieregiona" -> <<"U+043D", "U+0430", "U+0437", "U+0432",
         "U+0430", "U+043D", "U+0438", "U+0435", "U+0440", "U+0435",
         "U+0433", "U+0438", "U+043E", "U+043D", "U+0430">>
    [] h = "latitude" -> <<"l", "a", "t", "i", "t", "u", "d", "e">>
    [] h = "lat" -> <<"l", "a", "t">>
    [] h = "cyr:shirota" -> <<"U+0448", "U+0438", "U+0440", "U+043E",
         "U+0442", "U+0430">>
    [] h = "longitude" -> <<"l", "o", "n", "g", "i", "t", "u", "d", "e">>
    [] h = "lon" -> <<"l", "o", "n">>
    [] h = "lng" -> <<"l", "n", "g">>
    [] h = "cyr:dolgota" -> <<"U+0434", "U+043E", "U+043B", "U+0433",
         "U+043E", "U+0442", "U+0430">>
    [] h = "vehicle_category" -> <<"v", "e", "h", "i", "c", "l", "e", "_",
         "c", "a", "t", "e", "g", "o", "r", "y">>
    [] h = "uav_type" -> <<"u", "a", "v", "_", "t", "y", "p", "e">>
    [] h = "cyr:tipbpla" -> <<"U+0442", "U+0438", "U+043F", "U+0431",
         "U+043F", "U+043B", "U+0430">>
    [] h = "operator_type" -> <<"o", "p", "e", "r", "a", "t", "o", "r", "_",
         "t", "y", "p", "e">>
    [] h = "operator" -> <<"o", "p", "e", "r", "a", "t", "o", "r">>
    [] h = "cyr:tipoperatora" -> <<"U+0442", "U+0438", "U+043F", "U+043E",
         "U+043F", "U+0435", "U+0440", "U+0430", "U+0442", "U+043E",
         "U+0440", "U+0430">>
    [] h = "flight_purpose" -> <<"f", "l", "i", "g", "h", "t", "_", "p", "u",
         "r", "p", "o", "s", "e">>
    [] h = "purpose" -> <<"p", "u", "r", "p", "o", "s", "e">>
    [] h = "cyr:tselvyleta" -> <<"U+0446", "U+0435", "U+043B", "U+044C",
         "U+0432", "U+044B", "U+043B", "U+0435", "U+0442", "U+0430">>
    [] h = "payload_type" -> <<"p", "a", "y", "l", "o", "a", "d", "_", "t",
         "y", "p", "e">>
    [] h = "payload" -> <<"p", "a", "y", "l", "o", "a", "d">>
    [] h = "cyr:tipnagruzki" -> <<"U+0442", "U+0438", "U+043F", "U+043D",
         "U+0430", "U+0433", "U+0440", "U+0443", "U+0437", "U+043A",
         "U+0438">>
    [] h = "Flight No" -> <<"F", "l", "i", "g", "h", "t", " ", "N", "o">>
    [] h = " START " -> <<" ", "S", "T", "A", "R", "T", " ">>
    [] h = "End-Time" -> <<"E", "n", "d", "-", "T", "i", "m", "e">>
    [] h = "Duration (min)" -> <<"D", "u", "r", "a", "t", "i", "o", "n", " ",
         "(", "m", "i", "n", ")">>
    [] h = "Region" -> <<"R", "e", "g", "i", "o", "n">>
    [] h = "LAT" -> <<"L", "A", "T">>
    [] h = "Comment" -> <<"C", "o", "m", "m", "e", "n", "t">>
    [] h = "start_time_utc" -> <<"s", "t", "a", "r", "t", "_", "t", "i", "m",
         "e", "_", "u", "t", "c">>
    [] h = "end_time_utc" -> <<"e", "n", "d", "_", "t", "i", "m", "e", "_",
         "u", "t", "c">>
    [] h = "surrogate_id" -> <<"s", "u", "r", "r", "o", "g", "a", "t", "e",
         "_", "i", "d">>
    [] h = "superseded" -> <<"s", "u", "p", "e", "r", "s", "e", "d", "e",
         "d">>
    [] h = "cyr:Nomer poleta" -> <<"U+041D", "U+043E", "U+043C", "U+0435",
         "U+0440", " ", "U+043F", "U+043E", "U+043B", "U+0435", "U+0442",
         "U+0430">>
    [] h = "cyr:Shirota" -> <<"U+0428", "U+0438", "U+0440", "U+043E",
         "U+0442", "U+0430">>
    [] h = "" -> <<>>

\* the headers of the model's universe: every alias and the sample headers
HeaderUniverse ==
  {"flight_id", "flightno", "flight_no", "flightnumber", "cyr:nomerpoleta",
   "flight", "start_time", "start", "start_datetime", "departure_time",
   "cyr:vremyanchala", "cyr:vremenavyleta", "end_time", "end", "end_datetime",
   "arrival_time", "cyr:vremyazaversheniya", "cyr:vremeposadki", "duration",
   "duration_minutes", "duration_min", "cyr:prodolzhitelnost",
   "cyr:dlitelnostmin", "region_code", "region", "regionid", "cyr:kodregiona",
   "region_name", "region_title", "cyr:nazvanieregiona", "latitude", "lat",
   "cyr:shirota", "longitude", "lon", "lng", "cyr:dolgota",
   "vehicle_category", "uav_type", "cyr:tipbpla", "operator_type", "operator",
   "cyr:tipoperatora", "flight_purpose", "purpose", "cyr:tselvyleta",
   "payload_type", "payload", "cyr:tipnagruzki", "Flight No", " START ",
   "End-Time", "Duration (min)", "Region", "LAT", "Comment", "start_time_utc",
   "end_time_utc", "surrogate_id", "superseded", "cyr:Nomer poleta",
   "cyr:Shirota", ""}

\* normalize_header of every header of the universe, computed once
NormalizedHeader ==
  [h \in HeaderUniverse |-> normalize_header(Spelling(h))] @@ <<>>

\* build_reverse_column_map: later pairs overwrite earlier ones
build_reverse_column_map ==
  LET key(i) == NormalizedHeader[AliasPairs[i][2]]
      keys == {key(i) : i \in 1..Len(AliasPairs)}
      last(k) == CHOOSE i \in 1..Len(AliasPairs) :
                   /\ key(i) = k
                   /\ \A j \in 1..Len(AliasPairs) : key(j) = k => j <= i
  IN [k \in keys |-> AliasPairs[last(k)][1]] @@ <<>>

REVERSE_COLUMN_MAP == build_reverse_column_map

\* a variant of normalize_columns that files every unknown header under
\* payload_type
normalize_columns_defaulting(columns) ==
  [name \in Range(columns) |->
     IF NormalizedHeader[name] \in DOMAIN REVERSE_COLUMN_MAP
     THEN REVERSE_COLUMN_MAP[NormalizedHeader[name]]
     ELSE "payload_type"] @@ <<>>

\* schemas.normalize_columns: source name -> canonical name
normalize_columns(columns) ==
  LET known == {name \in Range(columns) :
                  NormalizedHeader[name] \in DOMAIN REVERSE_COLUMN_MAP}
  IN [name \in known |-> REVERSE_COLUMN_MAP[NormalizedHeader[name]]] @@ <<>>

-----------------------------------------------------------------------------
(* Cell values of a table.  A cell is null, text, a number, a boolean, a   *)
(* datetime, or the text of a generated UUID.                              *)

Null == [k |-> "null"]

Str(s) == [k |-> "str", s |-> s]

Num(n) == [k |-> "num", n |-> n]

Bool(b) == [k |-> "bool", b |-> b]

\* A datetime: seconds since 2024-01-01T00:00:00 of its own wall clock, the
\* microsecond fraction, and its UTC offset ("naive" when it carries none).
Datetime(sec, us, utcoffset) ==
  [k |-> "datetime", sec |-> sec, us |-> us, utcoffset |-> utcoffset]

\* str(uuid5(NAMESPACE_URL, base)): a text determined by base (the hash is
\* taken to be collision free)
Uuid5(base) == [k |-> "uuid", base |-> base]

\* the timezone hint when none is given (Python None)
NoTz == "None"

\* seconds east of UTC of a zone name or of an explicit offset
UtcOffsetSeconds(tz) ==
  CASE tz = "UTC" -> 0
    [] tz = "+03:00" -> 3 * 3600
    [] tz = "Europe/Moscow" -> 3 * 3600

\* dt.in_timezone(pendulum.UTC) of a wall-clock time read in zone tz
InUtc(sec, us, tz) == Datetime(sec - UtcOffsetSeconds(tz), us, "UTC")

\* str.strip() on the texts of the model's universe
StripText(s) ==
  CASE s = " A1 " -> "A1"
    [] s = " " -> ""
    [] s = " RU-MOW" -> "RU-MOW"
    [] OTHER -> s

\* the numeric texts of the model's universe and the float each one is
NumericTexts == {"30", "60", "90", "-5", "55", "95", "-91", "37", "190"}

FloatOfText(s) ==
  CASE s = "30" -> 30
    [] s = "60" -> 60
    [] s = "90" -> 90
    [] s = "-5" -> -5
    [] s = "55" -> 55
    [] s = "95" -> 95
    [] s = "-91" -> -91
    [] s = "37" -> 37
    [] s = "190" -> 190

HMS(h, m, s) == h * 3600 + m * 60 + s

Unparseable == [ok |-> FALSE]

Parsed(sec, us, utcoffset) ==
  [ok |-> TRUE, sec |-> sec, us |-> us, utcoffset |-> utcoffset]

\* pendulum.parse(text, strict=False) on the date texts of the model's
\* universe; any other text raises there
PendulumParse(text) ==
  CASE text = "2024-01-01 09:00" -> Parsed(HMS(9, 0, 0), 0, "naive")
    [] text = "2024-01-01 10:00" -> Parsed(HMS(10, 0, 0), 0, "naive")
    [] text = "2024-01-01 10:00:00.500000" -> Parsed(HMS(10, 0, 0), 500000, "naive")
    [] text = "2024-01-01T13:00:00+03:00" -> Parsed(HMS(13, 0, 0), 0, "+03:00")
    [] text = "2024-01-01 11:00" -> Parsed(HMS(11, 0, 0), 0, "naive")
    [] text = "2024-01-01 11:00:30.250000" -> Parsed(HMS(11, 0, 30), 250000, "naive")
    [] text = "2024-01-01 11:30" -> Parsed(HMS(11, 30, 0), 0, "naive")
    [] text = "2024-01-01 12:00" -> Parsed(HMS(12, 0, 0), 0, "naive")
    [] text = "2024-01-01 12:45" -> Parsed(HMS(12, 45, 0), 0, "naive")
    [] text = "2024-01-01 14:00" -> Parsed(HMS(14, 0, 0), 0, "naive")
    [] text = "2024-01-01 14:30" -> Parsed(HMS(14, 30, 0), 0, "naive")
    [] OTHER -> Unparseable

\* str(value)
PyStr(value) ==
  CASE value.k = "str" -> value.s
    [] value.k = "num" -> ToString(value.n)

\* bool(value) of a cell read back as a Python object
Truthy(value) ==
  CASE value.k = "null" -> FALSE
    [] value.k = "str" -> value.s # ""
    [] value.k = "uuid" -> TRUE
    [] value.k = "datetime" -> TRUE

\* cast(pl.Utf8, strict=False)
CastUtf8(value) ==
  CASE value.k = "null" -> Null
    [] value.k = "str" -> value
    [] value.k = "uuid" -> value
    [] value.k = "num" -> Str(ToString(value.n))
    [] value.k = "bool" -> Str(IF value.b THEN "true" ELSE "false")

\* cast(pl.Float64, strict=False): text that is no number becomes null
CastFloat64(value) ==
  CASE value.k = "null" -> Null
    [] value.k = "num" -> value
    [] value.k = "bool" -> Num(IF value.b THEN 1 ELSE 0)
    [] value.k = "str" ->
         IF value.s \in NumericTexts THEN Num(FloatOfText(value.s)) ELSE Null
    [] value.k = "uuid" -> Null

\* cast(pl.Boolean, strict=False).fill_null(False)
CastBooleanFillFalse(value) ==
  CASE value.k = "null" -> Bool(FALSE)
    [] value.k = "bool" -> value
    [] value.k = "num" -> Bool(value.n # 0)

\* str.strip() on a Utf8 cell
StripCell(value) == IF value.k = "str" THEN Str(StripText(value.s)) ELSE value

\* a < b on two UTC datetimes
DatetimeLess(a, b) == a.sec < b.sec \/ (a.sec = b.sec /\ a.us < b.us)

\* microseconds per second: the columns are pl.Datetime("us", "UTC")
MicrosPerSecond == 1000000

\* (end - start).dt.total_minutes(): the difference in whole minutes,
\* fractions of a minute cut off (towards zero)
TotalMinutes(start, end) ==
  LET borrow == IF end.us < start.us THEN 1 ELSE 0
      whole == (end.sec - start.sec) - borrow      \* floor of the seconds
      frac == (end.us - start.us) + borrow * MicrosPerSecond
  IN IF whole >= 0 THEN whole \div 60
     ELSE IF frac = 0 THEN -((-whole) \div 60)
     ELSE -(((-whole) - 1) \div 60)

-----------------------------------------------------------------------------
(* Data frames: ordered column names and rows keyed by column name         *)

Frame(columns, rows) == [columns |-> columns, rows |-> rows]

Has(df, name) == name \in Range(df.columns)

Height(df) == Len(df.rows)

\* Body applied to the value of x: x is computed first, once
WithValue(x, Body(_)) == CHOOSE y \in {Body(v) : v \in {x}} : TRUE

\* the sequence <<RowFn(rows[1]), ..., RowFn(rows[n])>>, computed once
MapRows(rows, RowFn(_)) ==
  SubSeq([i \in 1..Len(rows) |-> RowFn(rows[i])], 1, Len(rows))

\* the row with the cell of column name set to value
SetCell(row, name, value) == (name :> value) @@ row

\* the row cut down to the given columns, computed once
Restrict(row, names) == [c \in names |-> row[c]] @@ <<>>

\* columns, then those of names that columns lacks, in the order of names
AppendMissing(columns, names) ==
  columns \o SelectSeq(names, LAMBDA c : c \notin Range(columns))

\* df.with_columns(Expr.alias(name)): Expr is evaluated on the frame as it was
WithColumn(df, name, Expr(_)) ==
  WithValue(df, LAMBDA d :
    Frame(AppendMissing(d.columns, <<name>>),
          MapRows(d.rows, LAMBDA row : SetCell(row, name, Expr(row)))))

\* df.drop(names)
DropColumns(df, names) ==
  WithValue(df, LAMBDA d :
    Frame(SelectSeq(d.columns, LAMBDA c : c \notin names),
          MapRows(d.rows, LAMBDA row : Restrict(row, DOMAIN row \ names))))

\* df.select(columns)
SelectColumns(df, columns) ==
  WithValue(df, LAMBDA d :
    Frame(columns, MapRows(d.rows, LAMBDA row : Restrict(row, Range(columns)))))

\* df.filter(Keep)
FilterRows(df, Keep(_)) ==
  WithValue(df, LAMBDA d : Frame(d.columns, SelectSeq(d.rows, Keep)))

\* normalization._ensure_column for several columns with one default: each
\* missing column is added, in order, filled with the default
_ensure_columns(df, names, default) ==
  WithValue(df, LAMBDA d :
    Frame(AppendMissing(d.columns, names),
          MapRows(d.rows, LAMBDA row :
            [c \in DOMAIN row \cup Range(names) |->
               IF c \in DOMAIN row THEN row[c] ELSE default] @@ <<>>)))

\* every cell of the given columns replaced by Cast of it
CastColumns(df, names, Cast(_)) ==
  WithValue(df, LAMBDA d :
    Frame(d.columns,
          MapRows(d.rows, LAMBDA row :
            [c \in DOMAIN row |->
               IF c \in names THEN Cast(row[c]) ELSE row[c]] @@ <<>>)))

-----------------------------------------------------------------------------
(* normalization.py                                                        *)

\* a variant of _parse_datetime that reads every value without offset as UTC
_parse_datetime_ignoring_hint(value, tz_hint) ==
  IF value = Null THEN Null
  ELSE IF value.k = "datetime" THEN
    IF value.utcoffset = "naive"
    THEN InUtc(value.sec, value.us, "UTC")
    ELSE InUtc(value.sec, value.us, value.utcoffset)
  ELSE
    LET text == StripText(PyStr(value)) IN
    IF text = "" THEN Null
    ELSE LET dt == PendulumParse(text) IN
      IF ~dt.ok THEN Null
      ELSE IF dt.utcoffset # "naive" THEN InUtc(dt.sec, dt.us, dt.utcoffset)
      ELSE InUtc(dt.sec, dt.us, "UTC")

\* _parse_datetime(value, tz_hint)
_parse_datetime(value, tz_hint) ==
  IF value = Null THEN Null
  ELSE IF value.k = "datetime" THEN
    IF value.utcoffset = "naive"
    THEN InUtc(value.sec, value.us, IF tz_hint # NoTz THEN tz_hint ELSE "UTC")
    ELSE InUtc(value.sec, value.us, value.utcoffset)
  ELSE
    LET text == StripText(PyStr(value)) IN
    IF text = "" THEN Null
    ELSE LET dt == PendulumParse(text) IN
      IF ~dt.ok THEN Null
      ELSE IF dt.utcoffset # "naive" THEN InUtc(dt.sec, dt.us, dt.utcoffset)
      ELSE IF tz_hint # NoTz THEN InUtc(dt.sec, dt.us, tz_hint)
      ELSE InUtc(dt.sec, dt.us, "UTC")

\* a variant of _generate_surrogate without its first test: an id is
\* generated whether or not the row carries a flight_id
_generate_surrogate_unconditional(row) ==
  LET start == row["start_time_utc"]
      end == row["end_time_utc"]
      region == IF Truthy(row["region_code"]) THEN row["region_code"]
                ELSE row["region_name"]
  IN IF ~Truthy(start) \/ ~Truthy(end) THEN Null
     ELSE Uuid5(SelectSeq(<<start, end, region>>, LAMBDA part : part # Null))

\* a variant of _generate_surrogate that derives no id for a row without a
\* region
_generate_surrogate_needing_region(row) ==
  LET start == row["start_time_utc"]
      end == row["end_time_utc"]
      region == IF Truthy(row["region_code"]) THEN row["region_code"]
                ELSE row["region_name"]
  IN IF Truthy(row["flight_id"]) THEN Null
     ELSE IF ~Truthy(start) \/ ~Truthy(end) \/ ~Truthy(region) THEN Null
     ELSE Uuid5(<<start, end, region>>)

\* _generate_surrogate(row)
_generate_surrogate(row) ==
  IF Truthy(row["flight_id"]) THEN Null
  ELSE
    LET start == row["start_time_utc"]
        end == row["end_time_utc"]
        region == IF Truthy(row["region_code"]) THEN row["region_code"]
                  ELSE row["region_name"]
        parts == <<start, end, region>>
        base == SelectSeq(parts, LAMBDA part : part # Null)
    IN IF ~Truthy(start) \/ ~Truthy(end) THEN Null
       ELSE IF base = <<>> THEN Null
       ELSE Uuid5(base)

\* the column names df.rename(normalize_columns(df.columns)) would give
RenamedColumns(columns) ==
  LET rename_map == normalize_columns(columns)
  IN [i \in 1..Len(columns) |->
        IF columns[i] \in DOMAIN rename_map THEN rename_map[columns[i]]
        ELSE columns[i]]

\* df.rename(rename_map), for a rename polars accepts (no two columns end up
\* with one name)
RenameColumns(df) ==
  WithValue(RenamedColumns(df.columns), LAMBDA new :
    Frame(SubSeq(new, 1, Len(new)),
          MapRows(df.rows, LAMBDA row :
            [c \in Range(new) |-> row[df.columns[IndexOf(new, c)]]] @@ <<>>)))

\* "Normalize strings": cast to text and strip, for the canonical string
\* columns the frame has
NormalizeStrings(df) ==
  CastColumns(df, Range(CANONICAL_STRINGS), LAMBDA v : StripCell(CastUtf8(v)))

\* "Parse datetime columns": a *_utc column for each of start_time, end_time
\* the frame has, then both *_utc columns ensured
ParseDatetimeColumns(df, tz_hint) ==
  WithValue(df, LAMBDA d :
    LET sources == SelectSeq(<<"start_time", "end_time">>,
                             LAMBDA c : c \in Range(d.columns))
        targets == [i \in 1..Len(sources) |-> sources[i] \o "_utc"]
        resolved(row, column) ==
          IF column \in DOMAIN row
          THEN _parse_datetime(row[column], tz_hint)
          ELSE IF (column \o "_utc") \in DOMAIN row THEN row[column \o "_utc"]
          ELSE Null
    IN Frame(AppendMissing(AppendMissing(d.columns, targets),
                           <<"start_time_utc", "end_time_utc">>),
             MapRows(d.rows, LAMBDA row :
               [c \in DOMAIN row \cup {"start_time_utc", "end_time_utc"} |->
                  IF c = "start_time_utc" THEN resolved(row, "start_time")
                  ELSE IF c = "end_time_utc" THEN resolved(row, "end_time")
                  ELSE row[c]] @@ <<>>)))

\* "Drop the original datetime columns to avoid ambiguity"
DropOriginalDatetimes(df) == DropColumns(df, {"start_time", "end_time"})

\* duration_expr: null when either end is null
duration_expr(row) ==
  IF row["start_time_utc"] = Null \/ row["end_time_utc"] = Null THEN Null
  ELSE Num(TotalMinutes(row["start_time_utc"], row["end_time_utc"]))

\* "Duration calculation"
DurationCalculation(df) ==
  WithColumn(df, "duration_minutes",
             LAMBDA r : IF "duration_minutes" \in DOMAIN r
                           /\ CastFloat64(r["duration_minutes"]) # Null
                        THEN CastFloat64(r["duration_minutes"])
                        ELSE duration_expr(r))

\* "for numeric_column in NUMERIC_FIELDS": ensure the column, cast it to float
NumericCoercion(df) ==
  CastColumns(_ensure_columns(df, NUMERIC_FIELDS, Null), Range(NUMERIC_FIELDS),
              LAMBDA v : CastFloat64(v))

\* a variant of lat_valid that accepts every latitude
lat_valid_unbounded(latitude) == TRUE

\* lat_valid, lon_valid on one cell
lat_valid(latitude) ==
  latitude = Null \/ (latitude.n >= -90 /\ latitude.n <= 90)

lon_valid(longitude) ==
  longitude = Null \/ (longitude.n >= -180 /\ longitude.n <= 180)

\* "Coordinate validation": the three expressions read the same input frame
CoordinateValidation(df) ==
  WithValue(df, LAMBDA d :
    Frame(AppendMissing(d.columns, <<"_invalid_coord">>),
          MapRows(d.rows, LAMBDA r :
            [c \in DOMAIN r \cup {"_invalid_coord"} |->
               IF c = "latitude"
               THEN (IF lat_valid(r["latitude"]) THEN r["latitude"] ELSE Null)
               ELSE IF c = "longitude"
               THEN (IF lon_valid(r["longitude"]) THEN r["longitude"] ELSE Null)
               ELSE IF c = "_invalid_coord"
               THEN Bool(~lat_valid(r["latitude"]) \/ ~lon_valid(r["longitude"]))
               ELSE r[c]] @@ <<>>)))

\* "Ensure string columns exist": ensure each canonical string column, cast
\* it to text
EnsureStringColumns(df) ==
  CastColumns(_ensure_columns(df, CANONICAL_STRINGS, Null),
              Range(CANONICAL_STRINGS), LAMBDA v : CastUtf8(v))

\* surrogate_id, then flight_id := surrogate_id where flight_id is null or empty
IdentifierSynthesis(df) ==
  WithColumn(
    WithColumn(df, "surrogate_id", LAMBDA r : _generate_surrogate(r)),
    "flight_id",
    LAMBDA r : IF r["flight_id"] = Null \/ r["flight_id"] = Str("")
               THEN r["surrogate_id"] ELSE r["flight_id"])

\* the superseded column before deduplication
EnsureSuperseded(df) ==
  CastColumns(_ensure_columns(df, <<"superseded">>, Bool(FALSE)), {"superseded"},
              LAMBDA v : CastBooleanFillFalse(v))

\* a variant of invalid_mask that leaves the coordinate flag out
invalid_mask_without_coord(row) ==
  \/ row["start_time_utc"] = Null
  \/ row["end_time_utc"] = Null
  \/ DatetimeLess(row["end_time_utc"], row["start_time_utc"])

\* invalid_mask on one row
invalid_mask(row) ==
  \/ row["start_time_utc"] = Null
  \/ row["end_time_utc"] = Null
  \/ DatetimeLess(row["end_time_utc"], row["start_time_utc"])
  \/ row["_invalid_coord"] = Bool(TRUE)

\* fill_null("") on a text cell
FillNullEmpty(value) == IF value = Null THEN Str("") ELSE value

\* dt.strftime("%Y-%m-%dT%H:%M:%S"): the instant cut to whole seconds
Strftime(dt) == dt.sec

\* the dedupe key: the three texts joined with "|", kept here as a triple
dedupe_key(row) ==
  <<FillNullEmpty(row["flight_id"]), Strftime(row["start_time_utc"]),
    FillNullEmpty(row["region_code"])>>

\* cumcount().over(key): how many earlier rows carry the key of row i
dup_idx(rows, i) ==
  Cardinality({j \in 1..(i - 1) : dedupe_key(rows[j]) = dedupe_key(rows[i])})

\* count().over(key)
dup_total(rows, i) ==
  Cardinality({j \in 1..Len(rows) : dedupe_key(rows[j]) = dedupe_key(rows[i])})

\* a variant of the superseded expression that keeps the first occurrence
superseded_expr_keep_first(idx, total) == idx > 0

\* the superseded expression
superseded_expr(idx, total) == idx < total - 1

\* a variant of the deduplication that drops the earlier occurrences instead
\* of marking them
DeduplicationDroppingRows(df) ==
  WithValue(df, LAMBDA d :
    LET last == SelectSeq([i \in 1..Len(d.rows) |-> i],
                          LAMBDA i : dup_idx(d.rows, i) = dup_total(d.rows, i) - 1)
    IN Frame(d.columns,
             SubSeq([j \in 1..Len(last) |->
                       SetCell(d.rows[last[j]], "superseded", Bool(FALSE))],
                    1, Len(last))))

\* "Deduplication": removes no row
Deduplication(df) ==
  WithValue(df, LAMBDA d :
    Frame(d.columns,
          SubSeq([i \in 1..Len(d.rows) |->
                    SetCell(d.rows[i], "superseded",
                            Bool(superseded_expr(dup_idx(d.rows, i),
                                                 dup_total(d.rows, i))))],
                 1, Len(d.rows))))

\* the default of a canonical column that is still missing
CanonicalDefault(column) ==
  IF column \in Range(BOOLEAN_FIELDS) THEN Bool(FALSE) ELSE Null

\* "Ensure canonical columns exist with defaults"
EnsureCanonicalColumns(df) ==
  WithValue(df, LAMBDA d :
    Frame(AppendMissing(d.columns, CANONICAL_ORDER),
          MapRows(d.rows, LAMBDA row :
            [c \in DOMAIN row \cup Range(CANONICAL_ORDER) |->
               IF c \in DOMAIN row THEN row[c] ELSE CanonicalDefault(c)]
            @@ <<>>)))

\* a variant of the schema finalization without the closing select
SchemaFinalizationWithoutSelect(df) ==
  EnsureCanonicalColumns(
    DropColumns(df, {"_dedupe_key", "_dup_idx", "_dup_total", "_invalid",
                     "_invalid_coord"}))

\* df.drop(helper columns), the defaults, then df.select(CANONICAL_ORDER)
SchemaFinalization(df) ==
  SelectColumns(
    EnsureCanonicalColumns(
      DropColumns(df, {"_dedupe_key", "_dup_idx", "_dup_total", "_invalid",
                       "_invalid_coord"})),
    CANONICAL_ORDER)

\* the empty-input return value: pa.Table.from_pydict({col: [] ...})
EmptyTable == Frame(CANONICAL_ORDER, <<>>)

Counters(total, invalid, duplicates) ==
  [total |-> total, invalid |-> invalid, duplicates |-> duplicates]

Returned(table, counters) ==
  [status |-> "ok", table |-> table, counters |-> counters]

Raised(error) == [status |-> "raised", error |-> error]

\* normalize_records up to the row filter: the frame with every row of the
\* input, its resolved columns and the _invalid_coord flag
Prepared(df, tz_hint) ==
  EnsureSuperseded(
    IdentifierSynthesis(
      EnsureStringColumns(
        CoordinateValidation(
          NumericCoercion(
            DurationCalculation(
              DropOriginalDatetimes(
                ParseDatetimeColumns(
                  NormalizeStrings(RenameColumns(df)), tz_hint))))))))

\* total_records
total_records(df) == Height(df)

\* normalize_records from the row filter on, given the prepared frame
Finished(df, frame) ==
  LET invalid_count == Height(FilterRows(frame, LAMBDA r : invalid_mask(r)))
      valid == FilterRows(frame, LAMBDA r : ~invalid_mask(r))
      deduped == Deduplication(valid)
      duplicate_count ==
        Height(FilterRows(deduped, LAMBDA r : r["superseded"] = Bool(TRUE)))
  IN Returned(SchemaFinalization(deduped),
              Counters(total_records(df), invalid_count, duplicate_count))

\* the two early exits of normalize_records: the empty input, and the rename
\* that polars refuses
IsEmpty(df) == Height(df) = 0

RenameRaises(df) == ~IsDistinct(RenamedColumns(df.columns))

NoFrame == Frame(<<>>, <<>>)

\* the prepared frame of a call (none when the call leaves early)
PreparedOf(df, tz_hint) ==
  IF IsEmpty(df) \/ RenameRaises(df) THEN NoFrame ELSE Prepared(df, tz_hint)

\* normalize_records(df, report_timezone=tz_hint), given its prepared frame
normalize_records(df, frame) ==
  IF IsEmpty(df) THEN Returned(EmptyTable, Counters(0, 0, 0))
  ELSE IF RenameRaises(df) THEN Raised("DuplicateError")
  ELSE Finished(df, frame)

-----------------------------------------------------------------------------
(* The inputs: raw tables built from a column layout and source rows       *)

\* the largest number of pool rows of a generated table
MaxRows == 3

\* A layout names, for each source column, its header and the source-row
\* field it carries.
LayoutTest ==
  <<<<"flight_id", "fid">>, <<"start_time", "start">>, <<"end_time", "end">>,
    <<"duration_minutes", "dur">>, <<"region_code", "rc">>,
    <<"region_name", "rn">>, <<"latitude", "lat">>, <<"longitude", "lon">>>>

LayoutAliased ==
  <<<<"Flight No", "fid">>, <<" START ", "start">>, <<"End-Time", "end">>,
    <<"Duration (min)", "dur">>, <<"Region", "rc">>, <<"LAT", "lat">>,
    <<"lng", "lon">>, <<"Comment", "note">>>>

LayoutSparse == <<<<"start", "start">>, <<"end", "end">>>>

LayoutDuplicate ==
  <<<<"flight", "fid">>, <<"flight_no", "fid">>, <<"start_time", "start">>,
    <<"end_time", "end">>>>

LayoutCyrillic ==
  <<<<"cyr:nomerpoleta", "fid">>, <<"start_time", "start">>,
    <<"end_time", "end">>, <<"region_code", "rc">>, <<"lat", "lat">>,
    <<"lon", "lon">>>>

LayoutCyrillicTwo ==
  <<<<"cyr:Nomer poleta", "fid">>, <<"start_time", "start">>,
    <<"end_time", "end">>, <<"cyr:Shirota", "lat">>, <<"lon", "lon">>>>

Layouts ==
  {LayoutTest, LayoutAliased, LayoutSparse, LayoutDuplicate, LayoutCyrillic,
   LayoutCyrillicTwo}

SourceRow(fid, start, end, dur, rc, rn, lat, lon) ==
  [fid |-> fid, start |-> start, end |-> end, dur |-> dur, rc |-> rc,
   rn |-> rn, lat |-> lat, lon |-> lon, note |-> Str("n/a")]

\* the raw table of a layout and a sequence of source rows
MkTable(layout, rows) ==
  Frame([i \in 1..Len(layout) |-> layout[i][1]],
        [j \in 1..Len(rows) |->
           [h \in {layout[i][1] : i \in 1..Len(layout)} |->
              rows[j][layout[CHOOSE i \in 1..Len(layout) : layout[i][1] = h][2]]]])

\* every combination of the cell values below, for one-row tables
RowDomain ==
  {SourceRow(fid, start, end, dur, rc, rn, lat, lon) :
     fid \in {Null, Str(""), Str(" A1 "), Str("A1")},
     start \in {Null, Str("not a date"), Str("2024-01-01 10:00"),
                Str("2024-01-01T13:00:00+03:00")},
     end \in {Str(""), Str("2024-01-01 09:00"), Str("2024-01-01 11:00"),
              Str("2024-01-01 11:00:30.250000")},
     dur \in {Null, Str("90"), Str("abc")},
     rc \in {Null, Str(""), Str("RU-MOW")},
     rn \in {Null, Str("Moskva")},
     lat \in {Null, Str("55"), Str("90"), Str("95"), Str("55,75")},
     lon \in {Str("37"), Str("190")}}

\* the rows of multi-row tables: the fields of the dedupe key vary, and two
\* rows are invalid (a latitude out of range, an unparseable start)
RowPool ==
  {SourceRow(fid, start, Str("2024-01-01 11:00"), Null, Str("RU-MOW"),
             Str("Moskva"), Str("55"), Str("37")) :
     fid \in {Null, Str("A1")},
     start \in {Str("2024-01-01 10:00"), Str("2024-01-01 10:00:00.500000")}}
  \cup
  {SourceRow(Str("A1"), Str("2024-01-01 10:00"), Str("2024-01-01 11:00"),
             Null, Null, Str("Moskva"), Str("55"), Str("37")),
   SourceRow(Str("A1"), Str("2024-01-01 10:00"), Str("2024-01-01 11:00"),
             Str("90"), Str("RU-MOW"), Str("Moskva"), Str("95"), Str("37")),
   SourceRow(Str("A1"), Str("not a date"), Str("2024-01-01 11:00"),
             Str("90"), Str("RU-MOW"), Str("Moskva"), Str("55"), Str("37"))}

RECURSIVE SeqsUpTo(_, _)
SeqsUpTo(S, n) ==
  IF n = 0 THEN {<<>>}
  ELSE LET shorter == SeqsUpTo(S, n - 1)
       IN shorter \cup {Append(s, x) : s \in {t \in shorter : Len(t) = n - 1}, x \in S}

\* Scenario A of the specification: two flights with the same id, start and
\* region that differ in duration, a row without flight_id and region_code,
\* and a distinct valid flight
ScenarioA ==
  MkTable(LayoutTest,
    <<SourceRow(Str("A1"), Str("2024-01-01 10:00"), Str("2024-01-01 11:00"),
                Null, Str("RU-MOW"), Str("Moskva"), Str("55"), Str("37")),
      SourceRow(Str("A1"), Str("2024-01-01 10:00"), Str("2024-01-01 11:00"),
                Str("90"), Str("RU-MOW"), Str("Moskva"), Str("55"), Str("37")),
      SourceRow(Null, Str("2024-01-01 12:00"), Str("2024-01-01 12:45"),
                Null, Null, Null, Str("55"), Str("37")),
      SourceRow(Str("A2"), Str("2024-01-01 14:00"), Str("2024-01-01 14:30"),
                Str("30"), Str("RU-MOW"), Str("Moskva"), Str("55"), Str("37"))>>)

\* the raw tables: up to MaxRows pool rows under the test's layout, at most
\* one pool row under every layout, every one-row table of RowDomain, and
\* Scenario A
RawInputs ==
  {MkTable(LayoutTest, rows) : rows \in SeqsUpTo(RowPool, MaxRows)}
  \cup {MkTable(layout, rows) : layout \in Layouts, rows \in SeqsUpTo(RowPool, 1)}
  \cup {MkTable(LayoutTest, <<row>>) : row \in RowDomain}
  \cup {ScenarioA}

TzHints == {NoTz, "Europe/Moscow"}

-----------------------------------------------------------------------------
(* The state machine: one call of normalize_records on a raw table, then   *)
(* a second call on the canonical table the first one returned.            *)

NoResult == [status |-> "none"]

\* a database without rows, and no open connection
EmptyDatabase ==
  [dataset_version |-> <<>>, quality_report |-> {}, flight_quality_issues |-> {},
   flights_geo |-> {}]

NoConnection == [state |-> "closed"]

Init ==
  /\ data \in RawInputs
  /\ report_timezone \in TzHints
  /\ pc = "ready"
  /\ prepared = NoFrame
  /\ result = NoResult
  /\ previous = NoResult
  /\ flights = NoFrame
  /\ checks = <<>>
  /\ active_checks = <<>>
  /\ results = <<>>
  /\ report = NoResult
  /\ qpc = "idle"
  /\ dataset = ""
  /\ repository = FALSE
  /\ dry_run = FALSE
  /\ db = EmptyDatabase
  /\ conn = NoConnection
  /\ oplog = <<>>

\* table, counters = normalize_records(data, report_timezone=report_timezone)
NormalizeRecords ==
  /\ pc = "ready"
  /\ prepared' = PreparedOf(data, report_timezone)
  /\ result' = normalize_records(data, prepared')
  /\ pc' = "normalized"
  /\ UNCHANGED <<data, report_timezone, previous>>
  /\ UNCHANGED quality_vars
  /\ UNCHANGED repository_vars

\* the canonical table just returned is passed back into normalize_records
NormalizeAgain ==
  /\ pc = "normalized"
  /\ result.status = "ok"
  /\ data' = result.table
  /\ previous' = result
  /\ prepared' = PreparedOf(data', report_timezone)
  /\ result' = normalize_records(data', prepared')
  /\ pc' = "renormalized"
  /\ UNCHANGED report_timezone
  /\ UNCHANGED quality_vars
  /\ UNCHANGED repository_vars

-----------------------------------------------------------------------------
(* Properties of normalize_records                                         *)

\* a call of normalize_records has returned its (table, counters) pair
Returns == pc # "ready" /\ result.status = "ok"

\* the rows of the table the last call returned
OutputRows == result.table.rows

\* the validity rule on a prepared row
RowIsValid(row) ==
  /\ row["start_time_utc"] # Null
  /\ row["end_time_utc"] # Null
  /\ ~DatetimeLess(row["end_time_utc"], row["start_time_utc"])
  /\ row["_invalid_coord"] = Bool(FALSE)

\* the positions of the valid rows of the input, in input order
ValidPositions ==
  SelectSeq([i \in 1..Len(prepared.rows) |-> i],
            LAMBDA i : RowIsValid(prepared.rows[i]))

\* C1: the rows of the output are exactly the input rows whose resolved start
\* and end are non-null with end >= start and whose coordinates were in
\* range, in input order; every other row is removed and counted as invalid;
\* so every output row has a non-null start and end with end >= start.
C1_ValidRowsOnly ==
  Returns =>
    /\ Len(OutputRows) = Len(ValidPositions)
    /\ result.counters.invalid = Len(prepared.rows) - Len(ValidPositions)
    /\ \A j \in 1..Len(ValidPositions) :
         \A c \in Range(CANONICAL_ORDER) \ {"superseded"} :
           OutputRows[j][c] = prepared.rows[ValidPositions[j]][c]
    /\ \A j \in 1..Len(OutputRows) :
         /\ OutputRows[j]["start_time_utc"] # Null
         /\ OutputRows[j]["end_time_utc"] # Null
         /\ ~DatetimeLess(OutputRows[j]["end_time_utc"],
                          OutputRows[j]["start_time_utc"])

\* a first call kept a row and removed one row for its latitude and one for
\* its unparseable start
C1_Witness ==
  /\ pc = "normalized"
  /\ result.status = "ok"
  /\ Len(OutputRows) = 1
  /\ \E i \in 1..Len(prepared.rows) :
       prepared.rows[i]["_invalid_coord"] = Bool(TRUE)
  /\ \E i \in 1..Len(prepared.rows) :
       prepared.rows[i]["start_time_utc"] = Null

\* the dedup key of an output row
DedupKey(row) ==
  <<IF row["flight_id"] = Null THEN Str("") ELSE row["flight_id"],
    row["start_time_utc"].sec,
    IF row["region_code"] = Null THEN Str("") ELSE row["region_code"]>>

\* the output rows marked superseded
SupersededPositions ==
  {j \in 1..Len(OutputRows) : OutputRows[j]["superseded"] = Bool(TRUE)}

\* C2: among the output rows with one dedup key the last one, and only it,
\* has superseded = false, and counters.duplicates is the number of output
\* rows with superseded = true.
C2_DedupLaw ==
  Returns =>
    /\ \A j \in 1..Len(OutputRows) :
         OutputRows[j]["superseded"] =
           Bool(\E k \in (j + 1)..Len(OutputRows) :
                  DedupKey(OutputRows[k]) = DedupKey(OutputRows[j]))
    /\ result.counters.duplicates = Cardinality(SupersededPositions)

\* a first call returned three rows of one key, two of them superseded
C2_Witness ==
  /\ pc = "normalized"
  /\ result.status = "ok"
  /\ Len(OutputRows) = 3
  /\ DedupKey(OutputRows[1]) = DedupKey(OutputRows[2])
  /\ DedupKey(OutputRows[2]) = DedupKey(OutputRows[3])
  /\ OutputRows[1]["start_time_utc"] # OutputRows[3]["start_time_utc"]
  /\ result.counters.duplicates = 2

\* C3: total is the number of rows of the raw input, the output has
\* total - invalid rows, superseded rows stay in the output, and duplicates
\* is at most total - invalid.
C3_CounterConservation ==
  Returns =>
    /\ result.counters.total = Height(data)
    /\ Len(OutputRows) = result.counters.total - result.counters.invalid
    /\ result.counters.duplicates = Cardinality(SupersededPositions)
    /\ result.counters.duplicates <= result.counters.total - result.counters.invalid

\* a first call on three rows counted one invalid row and one duplicate
C3_Witness ==
  /\ pc = "normalized"
  /\ result.status = "ok"
  /\ result.counters = Counters(3, 1, 1)
  /\ Len(OutputRows) = 2

\* C4: passing the returned table back into normalize_records returns the
\* same table, every column of every row equal, with invalid = 0 and the
\* same duplicates count.
C4_Idempotence ==
  pc = "renormalized" =>
    /\ result.status = "ok"
    /\ result.table = previous.table
    /\ result.counters.invalid = 0
    /\ result.counters.duplicates = previous.counters.duplicates

\* C5: normalize_records returns a (table, counters) pair for every input and
\* never raises, two source columns resolving to one canonical field included.
C5_Total == pc # "ready" => result.status = "ok"

\* the cell of raw row i under the header that resolves to the canonical
\* column, null when no header does
SourceCell(i, column) ==
  LET new == RenamedColumns(data.columns)
      at == {n \in 1..Len(new) : new[n] = column}
  IN IF at = {} THEN Null ELSE data.rows[i][data.columns[CHOOSE n \in at : TRUE]]

\* the flight_id of raw row i as text without the surrounding blanks
SourceFlightId(i) ==
  LET cell == SourceCell(i, "flight_id")
  IN IF cell.k = "str" THEN Str(StripText(cell.s)) ELSE cell

\* the generated value: a function of start, end and region alone
GeneratedId(start, end, region) ==
  Uuid5(SelectSeq(<<start, end, region>>, LAMBDA part : part # Null))

\* region_code, or else region_name
RegionOf(row) ==
  IF row["region_code"] \notin {Null, Str("")} THEN row["region_code"]
  ELSE row["region_name"]

\* C6: an output row whose source flight_id was present and non-empty keeps
\* it and has a null surrogate_id; an output row whose source flight_id was
\* absent or empty has flight_id = surrogate_id = the value generated from
\* (start_time_utc, end_time_utc, region_code or else region_name) alone.
C6_IdentifierSynthesis ==
  Returns =>
    \A j \in 1..Len(OutputRows) :
      LET out == OutputRows[j]
          src == SourceFlightId(ValidPositions[j])
      IN IF src \notin {Null, Str("")}
         THEN out["surrogate_id"] = Null /\ out["flight_id"] = src
         ELSE /\ out["surrogate_id"] # Null
              /\ out["flight_id"] = out["surrogate_id"]
              /\ out["surrogate_id"] =
                   GeneratedId(out["start_time_utc"], out["end_time_utc"],
                               RegionOf(out))

\* a first call returned two rows without a source flight_id that got one
\* generated id, and a row that kept its flight_id
C6_Witness ==
  /\ pc = "normalized"
  /\ result.status = "ok"
  /\ Len(OutputRows) = 3
  /\ SourceFlightId(1) = Null
  /\ SourceFlightId(2) = Null
  /\ OutputRows[1]["flight_id"] = OutputRows[2]["flight_id"]
  /\ OutputRows[1]["surrogate_id"] # Null
  /\ OutputRows[3]["flight_id"] = Str("A1")
  /\ OutputRows[3]["surrogate_id"] = Null

\* C7 as stated: on Scenario A the row without flight_id and region_code is
\* invalid, the counters are {total: 4, invalid: 1, duplicates: 1} and the
\* output has 3 rows, exactly one of them superseded.
C7_ScenarioA_AsStated ==
  (pc = "normalized" /\ data = ScenarioA) =>
    /\ result.status = "ok"
    /\ result.counters = Counters(4, 1, 1)
    /\ Len(OutputRows) = 3
    /\ Cardinality(SupersededPositions) = 1

\* C7: on Scenario A the row without flight_id and region_code gets a
\* generated flight_id and stays valid: the counters are {total: 4,
\* invalid: 0, duplicates: 1} and the output has 4 rows, exactly one of them
\* (the first of the two equal flights) superseded.
C7_ScenarioA ==
  (pc = "normalized" /\ data = ScenarioA) =>
    /\ result.status = "ok"
    /\ result.counters = Counters(4, 0, 1)
    /\ Len(OutputRows) = 4
    /\ SupersededPositions = {1}
    /\ OutputRows[3]["surrogate_id"] # Null
    /\ OutputRows[3]["flight_id"] = OutputRows[3]["surrogate_id"]

\* normalize_records has returned on Scenario A
C7_Witness ==
  /\ pc = "normalized"
  /\ data = ScenarioA
  /\ result.status = "ok"
  /\ Len(prepared.rows) = 4

\* C8: the returned table has exactly the 14 canonical columns in canonical
\* order and no other; for a zero-row input it has no rows and the counters
\* are all zero.
C8_CanonicalColumns ==
  Returns =>
    /\ result.table.columns = CANONICAL_ORDER
    /\ Len(result.table.columns) = 14
    /\ \A j \in 1..Len(OutputRows) : DOMAIN OutputRows[j] = Range(CANONICAL_ORDER)
    /\ Height(data) = 0 =>
         /\ OutputRows = <<>>
         /\ result.counters = Counters(0, 0, 0)

\* a first call on a zero-row table that has a column outside the schema
C8_Witness ==
  /\ pc = "normalized"
  /\ result.status = "ok"
  /\ Height(data) = 0
  /\ Has(data, "Comment")
  /\ result.counters = Counters(0, 0, 0)

\* C9: every output row has a latitude that is null or within [-90, 90] and
\* a longitude that is null or within [-180, 180].
C9_CoordinatesInRange ==
  Returns =>
    \A j \in 1..Len(OutputRows) :
      /\ \/ OutputRows[j]["latitude"] = Null
         \/ /\ OutputRows[j]["latitude"].n >= -90
            /\ OutputRows[j]["latitude"].n <= 90
      /\ \/ OutputRows[j]["longitude"] = Null
         \/ /\ OutputRows[j]["longitude"].n >= -180
            /\ OutputRows[j]["longitude"].n <= 180

\* a first call on a row with latitude 90 kept the row and its latitude
C9_Witness ==
  /\ pc = "normalized"
  /\ result.status = "ok"
  /\ Len(data.rows) = 1
  /\ Len(OutputRows) = 1
  /\ OutputRows[1]["latitude"] = Num(90)
  /\ OutputRows[1]["longitude"] = Num(37)

\* C10: a header whose normalized form is that of an alias listed for field F
\* is mapped by normalize_columns to F, whatever other headers are present.
C10_HeaderResolution ==
  (pc = "normalized" /\ ~IsEmpty(data)) =>
    \A i \in 1..Len(data.columns) :
      \A p \in 1..Len(AliasPairs) :
        NormalizedHeader[data.columns[i]] = NormalizedHeader[AliasPairs[p][2]] =>
          /\ data.columns[i] \in DOMAIN normalize_columns(data.columns)
          /\ normalize_columns(data.columns)[data.columns[i]] = AliasPairs[p][1]
          /\ normalize_columns(<<data.columns[i]>>)[data.columns[i]] = AliasPairs[p][1]

-----------------------------------------------------------------------------
(* agents/quality/app/checks: the quality checks on a loaded table          *)

\* CheckStatus
CheckStatus == {"OK", "WARN", "FAIL"}

\* CheckResult(name, status, summary, details)
CheckResult(name, status, summary, details) ==
  [name |-> name, status |-> status, summary |-> summary, details |-> details]

\* details=None: a details dict without keys
NoDetails == <<>>

\* the texts that the checks and the summary sort, in the order of sorted()
\* (by code point: capitals before small letters)
SortedTexts ==
  <<"A1", "A2", "F1", "F2", "F3", "F4", "F5", "F6", "F7", "RU-MOW", "RU-SPE",
    "comment", "duration_minutes", "end_time_utc", "flight_id",
    "flight_purpose", "latitude", "longitude", "operator_type",
    "payload_type", "region_code", "region_name", "start_time_utc",
    "superseded", "surrogate_id", "vehicle_category">>

\* sorted(S) for a set of texts
Sorted(S) == SelectSeq(SortedTexts, LAMBDA t : t \in S)

\* "; ".join(messages)
RECURSIVE JoinMessages(_)
JoinMessages(messages) ==
  IF messages = <<>> THEN ""
  ELSE IF Len(messages) = 1 THEN messages[1]
  ELSE messages[1] \o "; " \o JoinMessages(Tail(messages))

\* ", ".join(names)
RECURSIVE JoinNames(_)
JoinNames(names) ==
  IF names = <<>> THEN ""
  ELSE IF Len(names) = 1 THEN names[1]
  ELSE names[1] \o ", " \o JoinNames(Tail(names))

\* data[column].isna().sum()
NullCount(frame, column) ==
  Cardinality({i \in 1..Len(frame.rows) : frame.rows[i][column] = Null})

\* data[mask]: the rows at the given positions, in table order
RowsAt(frame, positions) ==
  SelectSeq([i \in 1..Len(frame.rows) |-> i], LAMBDA i : i \in positions)

\* utils.dataframe_to_records: the default limit
SampleLimit == 5

\* series.dt.strftime("%Y-%m-%dT%H:%M:%SZ"): a text fixed by the whole seconds
FormattedUtc(dt) == [k |-> "strftime", sec |-> dt.sec]

\* utils.dataframe_to_records(frame): the first SampleLimit rows as dicts,
\* datetimes formatted as text
dataframe_to_records(frame, positions) ==
  LET at == RowsAt(frame, positions)
      n == IF Len(at) < SampleLimit THEN Len(at) ELSE SampleLimit
  IN SubSeq([j \in 1..n |->
               [c \in DOMAIN frame.rows[at[j]] |->
                  IF frame.rows[at[j]][c].k = "datetime"
                  THEN FormattedUtc(frame.rows[at[j]][c])
                  ELSE frame.rows[at[j]][c]] @@ <<>>],
            1, n)

\* frame.head(5).to_dict(orient="records"): no formatting
HeadRecords(frame, positions) ==
  LET at == RowsAt(frame, positions)
      n == IF Len(at) < SampleLimit THEN Len(at) ELSE SampleLimit
  IN SubSeq([j \in 1..n |-> frame.rows[at[j]]], 1, n)

\* a variant of _required_columns that lets duration_minutes be null
_required_columns_without_duration == {"flight_id", "start_time_utc", "end_time_utc"}

\* SchemaCheck._required_columns
_required_columns == {"flight_id", "start_time_utc", "end_time_utc", "duration_minutes"}

\* SchemaCheck._expected_columns
_expected_columns == Range(CANONICAL_ORDER)

\* SchemaCheck.run(data)
SchemaCheck(frame) ==
  LET missing_columns == Sorted(_expected_columns \ Range(frame.columns))
      unexpected_columns == Sorted(Range(frame.columns) \ _expected_columns)
      null_violations ==
        {column \in _required_columns \cap Range(frame.columns) :
           NullCount(frame, column) > 0}
      status == IF missing_columns # <<>> \/ null_violations # {} THEN "FAIL"
                ELSE IF unexpected_columns # <<>> THEN "WARN"
                ELSE "OK"
      messages ==
        (IF missing_columns # <<>> THEN <<"missing required columns">> ELSE <<>>)
        \o (IF unexpected_columns # <<>> THEN <<"found unexpected columns">> ELSE <<>>)
        \o (IF null_violations # {}
            THEN <<"null values detected in required columns">> ELSE <<>>)
      detail ==
        (IF missing_columns # <<>>
         THEN "missing_columns" :> missing_columns ELSE <<>>)
        @@ (IF unexpected_columns # <<>>
            THEN "unexpected_columns" :> unexpected_columns ELSE <<>>)
        @@ (IF null_violations # {}
            THEN "null_counts" :>
                   ([column \in null_violations |-> NullCount(frame, column)] @@ <<>>)
            ELSE <<>>)
  IN CheckResult("schema", status,
                 IF messages = <<>> THEN "schema matches canonical definition"
                 ELSE JoinMessages(messages),
                 detail)

\* DurationRangeCheck.__init__ defaults
DurationMinimum == 1

DurationMaximum == 24 * 60

\* DurationRangeCheck.run(data): the mask is built on the non-null durations
\* only, and data[mask] refuses a mask that lacks a row of the table
DurationRangeCheck(frame) ==
  IF ~Has(frame, "duration_minutes")
  THEN CheckResult("duration_range", "FAIL", "duration_minutes column missing",
                   NoDetails)
  ELSE
    LET durations == {i \in 1..Len(frame.rows) :
                        frame.rows[i]["duration_minutes"] # Null}
        below == {i \in durations :
                    frame.rows[i]["duration_minutes"].n < DurationMinimum}
        above == {i \in durations :
                    frame.rows[i]["duration_minutes"].n > DurationMaximum}
        invalid_rows == below \cup above
        detail == [minimum |-> DurationMinimum, maximum |-> DurationMaximum,
                   invalid_count |-> Cardinality(invalid_rows)]
    IN IF durations # 1..Len(frame.rows) THEN Raised("IndexingError")
       ELSE IF invalid_rows = {}
       THEN CheckResult("duration_range", "OK",
                        "all durations within expected range", detail)
       ELSE CheckResult("duration_range", "FAIL",
                        "found " \o ToString(Cardinality(invalid_rows))
                          \o " durations outside range",
                        ("sample_rows" :> dataframe_to_records(frame, invalid_rows))
                          @@ detail)

\* a variant of CoordinateRangeCheck.run that bounds latitude like longitude
CoordinateRangeCheckWideLatitude(frame) ==
  IF ~Has(frame, "latitude") \/ ~Has(frame, "longitude")
  THEN CheckResult("coordinate_range", "WARN",
                   "latitude/longitude columns not available", NoDetails)
  ELSE
    LET invalid ==
          {i \in 1..Len(frame.rows) :
             \/ /\ frame.rows[i]["latitude"] # Null
                /\ \/ frame.rows[i]["latitude"].n < -180
                   \/ frame.rows[i]["latitude"].n > 180
             \/ /\ frame.rows[i]["longitude"] # Null
                /\ \/ frame.rows[i]["longitude"].n < -180
                   \/ frame.rows[i]["longitude"].n > 180}
    IN IF invalid = {}
       THEN CheckResult("coordinate_range", "OK",
                        "coordinates fall within expected bounds", NoDetails)
       ELSE CheckResult("coordinate_range", "FAIL",
                        "found " \o ToString(Cardinality(invalid))
                          \o " coordinates outside geographic bounds",
                        [invalid_count |-> Cardinality(invalid),
                         sample_rows |-> dataframe_to_records(frame, invalid)])

\* CoordinateRangeCheck.run(data)
CoordinateRangeCheck(frame) ==
  IF ~Has(frame, "latitude") \/ ~Has(frame, "longitude")
  THEN CheckResult("coordinate_range", "WARN",
                   "latitude/longitude columns not available", NoDetails)
  ELSE
    LET invalid ==
          {i \in 1..Len(frame.rows) :
             \/ /\ frame.rows[i]["latitude"] # Null
                /\ \/ frame.rows[i]["latitude"].n < -90
                   \/ frame.rows[i]["latitude"].n > 90
             \/ /\ frame.rows[i]["longitude"] # Null
                /\ \/ frame.rows[i]["longitude"].n < -180
                   \/ frame.rows[i]["longitude"].n > 180}
    IN IF invalid = {}
       THEN CheckResult("coordinate_range", "OK",
                        "coordinates fall within expected bounds", NoDetails)
       ELSE CheckResult("coordinate_range", "FAIL",
                        "found " \o ToString(Cardinality(invalid))
                          \o " coordinates outside geographic bounds",
                        [invalid_count |-> Cardinality(invalid),
                         sample_rows |-> dataframe_to_records(frame, invalid)])


\* UniquenessCheck._key_columns
_key_columns == <<"flight_id", "start_time_utc", "region_code">>

\* a variant of the key that tells a superseded row from a retained one
KeyOfWithSuperseded(row) ==
  <<row["flight_id"], row["start_time_utc"], row["region_code"], row["superseded"]>>

\* the key of a row: its cells in the key columns (nulls compare equal in
\* DataFrame.duplicated)
KeyOf(row) == [n \in 1..Len(_key_columns) |-> row[_key_columns[n]]]

\* UniquenessCheck.run(data)
UniquenessCheck(frame) ==
  LET missing == SelectSeq(_key_columns, LAMBDA col : ~Has(frame, col)) IN
  IF missing # <<>>
  THEN CheckResult("uniqueness", "FAIL",
                   "missing key columns: " \o JoinNames(missing), NoDetails)
  ELSE
    LET duplicates ==
          {i \in 1..Len(frame.rows) :
             \E j \in 1..Len(frame.rows) :
               j # i /\ KeyOf(frame.rows[j]) = KeyOf(frame.rows[i])}
    IN IF duplicates = {}
       THEN CheckResult("uniqueness", "OK", "primary key combination is unique",
                        NoDetails)
       ELSE CheckResult("uniqueness", "FAIL",
                        "found " \o ToString(Cardinality(duplicates))
                          \o " duplicate key rows",
                        [duplicate_count |-> Cardinality(duplicates),
                         sample_rows |-> dataframe_to_records(frame, duplicates)])

\* Calendar of the model's universe: a datetime counts seconds from
\* 2024-01-01T00:00:00; the years 2023 to 2025 are covered.
SecondsPerDay == 86400

FirstYear == 2023

DaysInYear(year) == IF year = 2024 THEN 366 ELSE 365

\* days since 2023-01-01
DayNumber(sec) == (sec + DaysInYear(FirstYear) * SecondsPerDay) \div SecondsPerDay

\* timestamps.dt.year
YearOf(sec) ==
  IF DayNumber(sec) < DaysInYear(2023) THEN 2023
  ELSE IF DayNumber(sec) < DaysInYear(2023) + DaysInYear(2024) THEN 2024
  ELSE 2025

\* the day of the year, from 0
DayOfYear(sec) ==
  CASE YearOf(sec) = 2023 -> DayNumber(sec)
    [] YearOf(sec) = 2024 -> DayNumber(sec) - DaysInYear(2023)
    [] YearOf(sec) = 2025 -> DayNumber(sec) - DaysInYear(2023) - DaysInYear(2024)

DaysInMonth(year, month) ==
  IF month = 2 THEN (IF year = 2024 THEN 29 ELSE 28)
  ELSE IF month \in {4, 6, 9, 11} THEN 30
  ELSE 31

RECURSIVE DaysBeforeMonth(_, _)
DaysBeforeMonth(year, month) ==
  IF month = 1 THEN 0
  ELSE DaysBeforeMonth(year, month - 1) + DaysInMonth(year, month - 1)

\* timestamps.dt.month
MonthOf(sec) ==
  CHOOSE month \in 1..12 :
    /\ DaysBeforeMonth(YearOf(sec), month) <= DayOfYear(sec)
    /\ DayOfYear(sec) < DaysBeforeMonth(YearOf(sec), month)
                          + DaysInMonth(YearOf(sec), month)

\* the seconds of YYYY-MM-01T00:00:00 for a month of 2024
StartOfMonth2024(month) == DaysBeforeMonth(2024, month) * SecondsPerDay

\* a variant of the conversion that reads text that is no date as a date
ToDatetimeCoerceLenient(value) ==
  CASE value.k = "null" -> Null
    [] value.k = "datetime" -> value
    [] OTHER -> Datetime(StartOfMonth2024(1), 0, "UTC")

\* pd.to_datetime(value, errors="coerce") on one cell: NaT (null) for a null
\* and for text that is no date
ToDatetimeCoerce(value) ==
  CASE value.k = "null" -> Null
    [] value.k = "datetime" -> value
    [] value.k = "str" ->
         (CASE value.s = "2024-01-01T00:00:00Z" -> Datetime(StartOfMonth2024(1), 0, "UTC")
            [] value.s = "2024-03-01T00:00:00Z" -> Datetime(StartOfMonth2024(3), 0, "UTC")
            [] OTHER -> Null)
    [] OTHER -> Null

\* sorted(S) for a set of integers between low and high
SortedInts(S, low, high) ==
  SelectSeq([n \in 1..(high - low + 1) |-> low + n - 1], LAMBDA m : m \in S)

\* MonthlyCompletenessCheck.run(data)
MonthlyCompletenessCheck(frame) ==
  IF ~Has(frame, "start_time_utc")
  THEN CheckResult("monthly_completeness", "FAIL", "start_time_utc column missing",
                   NoDetails)
  ELSE
    LET timestamps == [i \in 1..Len(frame.rows) |->
                         ToDatetimeCoerce(frame.rows[i]["start_time_utc"])]
        invalid_dates == {i \in 1..Len(frame.rows) : timestamps[i] = Null}
    IN IF invalid_dates # {}
       THEN CheckResult("monthly_completeness", "FAIL",
                        "invalid datetimes in start_time_utc",
                        [invalid_count |-> Cardinality(invalid_dates),
                         sample_rows |-> HeadRecords(frame, invalid_dates)])
       ELSE
         LET years == {YearOf(timestamps[i].sec) : i \in 1..Len(frame.rows)}
             year_months(year) ==
               {MonthOf(timestamps[i].sec) :
                  i \in {j \in 1..Len(frame.rows) : YearOf(timestamps[j].sec) = year}}
             low(year) == CHOOSE m \in year_months(year) :
                            \A other \in year_months(year) : m <= other
             high(year) == CHOOSE m \in year_months(year) :
                             \A other \in year_months(year) : m >= other
             missing(year) == (low(year)..high(year)) \ year_months(year)
             warnings == [year \in {y \in years : missing(y) # {}} |->
                            SortedInts(missing(year), 1, 12)] @@ <<>>
             detail == [key \in {ToString(year) : year \in years} |->
                          SortedInts(year_months(CHOOSE year \in years :
                                                   ToString(year) = key), 1, 12)]
                       @@ <<>>
         IN IF DOMAIN warnings # {}
            THEN CheckResult("monthly_completeness", "WARN",
                             "missing intermediate months detected",
                             [missing_months |-> warnings, observed |-> detail])
            ELSE CheckResult("monthly_completeness", "OK",
                             "months are contiguous within each year",
                             IF years # {} THEN [observed |-> detail] ELSE NoDetails)

\* the value at position k (from 0) of the sorted non-null durations
SortedDuration(frame, durations, k) ==
  CHOOSE v \in {frame.rows[i]["duration_minutes"].n : i \in durations} :
    /\ Cardinality({i \in durations : frame.rows[i]["duration_minutes"].n < v}) <= k
    /\ k < Cardinality({i \in durations : frame.rows[i]["duration_minutes"].n <= v})

\* 4 * durations.quantile(quarters / 4) with linear interpolation
QuantileTimes4(frame, durations, quarters) ==
  LET n == Cardinality(durations)
      position == quarters * (n - 1)
      lo == position \div 4
      hi == IF lo + 1 < n THEN lo + 1 ELSE lo
  IN 4 * SortedDuration(frame, durations, lo)
     + (SortedDuration(frame, durations, hi) - SortedDuration(frame, durations, lo))
       * (position % 4)

\* 8 * lower and 8 * upper, for lower = q1 - 1.5 * iqr, upper = q3 + 1.5 * iqr
LowerTimes8(q1x4, q3x4) == 2 * q1x4 - 3 * (q3x4 - q1x4)

UpperTimes8(q1x4, q3x4) == 2 * q3x4 + 3 * (q3x4 - q1x4)

\* DurationOutlierCheck.run(data)
DurationOutlierCheck(frame) ==
  IF ~Has(frame, "duration_minutes")
  THEN CheckResult("duration_outliers", "FAIL", "duration_minutes column missing",
                   NoDetails)
  ELSE
    LET durations == {i \in 1..Len(frame.rows) :
                        frame.rows[i]["duration_minutes"] # Null}
    IN IF durations = {}
       THEN CheckResult("duration_outliers", "WARN",
                        "no duration values available for outlier detection",
                        NoDetails)
       ELSE
         LET q1x4 == QuantileTimes4(frame, durations, 1)
             q3x4 == QuantileTimes4(frame, durations, 3)
             lower == LowerTimes8(q1x4, q3x4)
             upper == UpperTimes8(q1x4, q3x4)
             outliers ==
               {i \in durations :
                  \/ 8 * frame.rows[i]["duration_minutes"].n < lower
                  \/ 8 * frame.rows[i]["duration_minutes"].n > upper}
             detail == [thresholds |-> [lower |-> <<lower, 8>>, upper |-> <<upper, 8>>],
                        outlier_count |-> Cardinality(outliers)]
         IN IF outliers = {}
            THEN CheckResult("duration_outliers", "OK",
                             "no duration outliers detected", detail)
            ELSE CheckResult("duration_outliers", "WARN",
                             "detected " \o ToString(Cardinality(outliers))
                               \o " potential duration outliers",
                             ("sample_rows" :> dataframe_to_records(frame, outliers))
                               @@ detail)


-----------------------------------------------------------------------------
(* agents/quality/app/pipeline.py                                          *)

\* checks.default_checks(): the checks by name, in suite order
default_checks ==
  <<"schema", "duration_range", "coordinate_range", "uniqueness",
    "monthly_completeness", "duration_outliers">>

\* check.run(data) for the check of the given name
RunCheckNamed(name, frame) ==
  CASE name = "schema" -> SchemaCheck(frame)
    [] name = "duration_range" -> DurationRangeCheck(frame)
    [] name = "coordinate_range" -> CoordinateRangeCheck(frame)
    [] name = "uniqueness" -> UniquenessCheck(frame)
    [] name = "monthly_completeness" -> MonthlyCompletenessCheck(frame)
    [] name = "duration_outliers" -> DurationOutlierCheck(frame)

\* a variant of the map that reports a warning as validated
QUALITY_STATUS_MAP_hiding_warnings ==
  [status \in CheckStatus |->
     CASE status = "OK" -> "validated"
       [] status = "WARN" -> "validated"
       [] status = "FAIL" -> "quality_fail"]

\* QUALITY_STATUS_MAP
QUALITY_STATUS_MAP ==
  [status \in CheckStatus |->
     CASE status = "OK" -> "validated"
       [] status = "WARN" -> "quality_warn"
       [] status = "FAIL" -> "quality_fail"]

\* the loop of aggregate_status from some result on, final_status so far
RECURSIVE AggregateFrom(_, _)
AggregateFrom(rest, final_status) ==
  IF rest = <<>> THEN final_status
  ELSE IF Head(rest).status = "FAIL" THEN "FAIL"
  ELSE AggregateFrom(Tail(rest),
                     IF Head(rest).status = "WARN" /\ final_status = "OK"
                     THEN "WARN" ELSE final_status)

\* a variant of aggregate_status that returns the first status that is not OK
RECURSIVE aggregate_status_first_not_ok(_)
aggregate_status_first_not_ok(given) ==
  IF given = <<>> THEN "OK"
  ELSE IF Head(given).status # "OK" THEN Head(given).status
  ELSE aggregate_status_first_not_ok(Tail(given))

\* aggregate_status(results)
aggregate_status(given) == AggregateFrom(given, "OK")

\* _iter_sample_rows(details): the rows under the three sample keys
_iter_sample_rows(details) ==
  (IF "sample_rows" \in DOMAIN details THEN details["sample_rows"] ELSE <<>>)
  \o (IF "rows" \in DOMAIN details THEN details["rows"] ELSE <<>>)
  \o (IF "violations" \in DOMAIN details THEN details["violations"] ELSE <<>>)

\* a variant of the impacted values that reads the first sample row only
ImpactedFirstRowOnly(rows, column) ==
  Sorted({PyStr(rows[i][column]) :
            i \in {j \in 1..Len(rows) :
                     j = 1 /\ column \in DOMAIN rows[j] /\ Truthy(rows[j][column])}})

\* sorted({str(row[column]) for row in rows if row.get(column)})
Impacted(rows, column) ==
  Sorted({PyStr(rows[i][column]) :
            i \in {j \in 1..Len(rows) :
                     column \in DOMAIN rows[j] /\ Truthy(rows[j][column])}})

\* the payload of the entry of one result
Payload(given) ==
  LET rows == _iter_sample_rows(given.details)
      impacted_regions == Impacted(rows, "region_code")
      impacted_records == Impacted(rows, "flight_id")
  IN (IF impacted_records # <<>>
      THEN "impacted_records" :> impacted_records ELSE <<>>)
     @@ (IF impacted_regions # <<>>
         THEN "impacted_regions" :> impacted_regions ELSE <<>>)
     @@ (IF given.details # NoDetails THEN "details" :> given.details ELSE <<>>)
     @@ ("summary" :> given.summary)

\* QualityReportEntry of one result
QualityReportEntry(given) ==
  [check_name |-> given.name, severity |-> given.status, payload |-> Payload(given)]

\* the FlightQualityIssue list of one result
FlightQualityIssues(given) ==
  LET impacted_records == Impacted(_iter_sample_rows(given.details), "flight_id")
      issue_details ==
        (IF given.details # NoDetails THEN "details" :> given.details ELSE <<>>)
        @@ ("summary" :> given.summary)
  IN IF given.status \in {"WARN", "FAIL"}
     THEN [n \in 1..Len(impacted_records) |->
             [flight_uid |-> impacted_records[n], check_name |-> given.name,
              severity |-> given.status, details |-> issue_details]]
     ELSE <<>>

RECURSIVE ConcatIssues(_)
ConcatIssues(given) ==
  IF given = <<>> THEN <<>>
  ELSE FlightQualityIssues(Head(given)) \o ConcatIssues(Tail(given))

\* summarise_results(results): (entries, flight_issues)
summarise_results(given) ==
  [entries |-> [n \in 1..Len(given) |-> QualityReportEntry(given[n])],
   flight_issues |-> ConcatIssues(given)]

\* the QualityReport that run_pipeline builds from the results (without its
\* clock reading generated_at)
QualityReport(version, given) ==
  LET status == aggregate_status(given)
      summary == summarise_results(given)
  IN [dataset_version |-> version,
      status |-> status,
      quality_status |-> QUALITY_STATUS_MAP[status],
      checks |-> given,
      entries |-> summary.entries,
      flight_issues |-> summary.flight_issues,
      warn_count |-> Cardinality({n \in 1..Len(summary.entries) :
                                    summary.entries[n].severity = "WARN"}),
      fail_count |-> Cardinality({n \in 1..Len(summary.entries) :
                                    summary.entries[n].severity = "FAIL"})]
-----------------------------------------------------------------------------
(* The normalizer's output under the uniqueness check                      *)

\* the canonical table just returned is given to UniquenessCheck.run
ValidateOutput ==
  /\ pc = "normalized"
  /\ result.status = "ok"
  /\ flights' = result.table
  /\ results' = <<UniquenessCheck(result.table)>>
  /\ pc' = "validated"
  /\ UNCHANGED <<data, report_timezone, prepared, result, previous>>
  /\ UNCHANGED <<checks, active_checks, report, qpc>>
  /\ UNCHANGED repository_vars

Next == NormalizeRecords \/ NormalizeAgain \/ ValidateOutput

Spec == Init /\ [][Next]_vars

-----------------------------------------------------------------------------
(* The inputs of run_pipeline: loaded tables and checks arguments          *)

\* the largest number of pool rows of a generated table
MaxQualityRows == 3

\* the largest number of rows of one kind in a generated table
MaxFlagged == 6

\* a UTC datetime of the loaded table: day `day` of a month of 2024, 10:00
At(month, day) ==
  Datetime(StartOfMonth2024(month) + (day - 1) * SecondsPerDay + HMS(10, 0, 0),
           0, "UTC")

\* a canonical row; end_time_utc is one hour after a start that is a datetime
FlightRow(fid, start, dur, lat, lon, rc, sup) ==
  [flight_id |-> fid, surrogate_id |-> Null, start_time_utc |-> start,
   end_time_utc |-> IF start.k = "datetime"
                    THEN Datetime(start.sec + 3600, start.us, "UTC") ELSE Null,
   duration_minutes |-> dur, region_code |-> rc, region_name |-> Null,
   latitude |-> lat, longitude |-> lon, vehicle_category |-> Null,
   operator_type |-> Null, flight_purpose |-> Null, payload_type |-> Null,
   superseded |-> Bool(sup), comment |-> Str("n/a")]

\* the table of the given columns and rows
FlightTable(columns, rows) ==
  Frame(columns,
        SubSeq([i \in 1..Len(rows) |-> Restrict(rows[i], Range(columns))],
               1, Len(rows)))

Without(columns, names) == SelectSeq(columns, LAMBDA c : c \notin names)

\* the column sets of the loaded tables: canonical, with a column too many,
\* and with columns missing
FlightLayouts ==
  {CANONICAL_ORDER,
   CANONICAL_ORDER \o <<"comment">>,
   Without(CANONICAL_ORDER, {"duration_minutes"}),
   Without(CANONICAL_ORDER, {"latitude"}),
   Without(CANONICAL_ORDER, {"latitude", "longitude", "payload_type"}),
   Without(CANONICAL_ORDER, {"start_time_utc", "region_code"})}

\* every combination of the cell values below, for one-row tables
FlightRowDomain ==
  {FlightRow(fid, start, dur, lat, lon, Str("RU-MOW"), FALSE) :
     fid \in {Null, Str("A1")},
     start \in {Null, At(1, 1), Str("not a date")},
     dur \in {Null, Num(-5), Num(1), Num(1440), Num(1441)},
     lat \in {Null, Num(90), Num(120)},
     lon \in {Null, Num(-180), Num(190)}}

\* the rows of multi-row tables; the last one starts on 2025-03-01
FlightRowPool ==
  {FlightRow(Str("A1"), At(1, 1), Num(30), Num(55), Num(37), Str("RU-MOW"), FALSE),
   FlightRow(Str("A1"), At(1, 1), Num(30), Num(55), Num(37), Str("RU-MOW"), TRUE),
   FlightRow(Str("A2"), At(3, 1), Num(30), Num(55), Num(37), Str("RU-MOW"), FALSE),
   FlightRow(Str("A2"), At(2, 1), Num(-5), Num(55), Num(37), Str("RU-SPE"), FALSE),
   FlightRow(Null, At(1, 1), Null, Num(120), Num(37), Null, FALSE),
   FlightRow(Str("A1"), Datetime(StartOfMonth2024(12) + 90 * SecondsPerDay, 0, "UTC"),
             Num(2000), Num(-91), Num(37), Null, FALSE)}

\* the flight ids F1, F2, ...
FlightName(n) == "F" \o ToString(n)

\* n flights F1..Fn of one duration, on the days 1..n of January
Fleet(n, dur) ==
  [i \in 1..n |->
     FlightRow(Str(FlightName(i)), At(1, i), dur, Num(55), Num(37),
               Str("RU-MOW"), FALSE)]

\* the loaded tables
QualityInputs ==
  {FlightTable(CANONICAL_ORDER, rows) : rows \in SeqsUpTo(FlightRowPool, MaxQualityRows)}
  \cup {FlightTable(columns, rows) :
          columns \in FlightLayouts, rows \in SeqsUpTo(FlightRowPool, 1)}
  \cup {FlightTable(CANONICAL_ORDER, <<row>>) : row \in FlightRowDomain}
  \cup {FlightTable(CANONICAL_ORDER, Fleet(n, Num(-5))) : n \in 1..MaxFlagged}
  \cup {FlightTable(CANONICAL_ORDER,
                    Fleet(n, Num(30))
                      \o <<FlightRow(Str("A1"), At(3, 1), Num(200), Num(55),
                                     Num(37), Str("RU-MOW"), FALSE)>>) :
          n \in 1..MaxFlagged}

\* the checks arguments: none (the default suite), every single check, and
\* two pairs of checks in both orders
CheckArguments ==
  {<<>>}
  \cup {<<name>> : name \in Range(default_checks)}
  \cup {<<"monthly_completeness", "uniqueness">>,
        <<"uniqueness", "monthly_completeness">>,
        <<"duration_outliers", "schema">>,
        <<"schema", "duration_outliers">>}

-----------------------------------------------------------------------------
(* The state machine of run_pipeline                                       *)

NoReport == [status |-> "none"]

\* the dataset version of the run
Dataset == "2024-01"

QualityInit ==
  /\ data = NoFrame
  /\ report_timezone = NoTz
  /\ pc = "idle"
  /\ prepared = NoFrame
  /\ result = NoResult
  /\ previous = NoResult
  /\ flights \in QualityInputs
  /\ checks \in CheckArguments
  /\ active_checks = <<>>
  /\ results = <<>>
  /\ report = NoReport
  /\ qpc = "start"
  /\ dataset = Dataset
  /\ repository = FALSE
  /\ dry_run = FALSE
  /\ db = EmptyDatabase
  /\ conn = NoConnection
  /\ oplog = <<>>

\* active_checks = list(checks or default_checks()); data = data_loader(...)
StartPipeline ==
  /\ qpc = "start"
  /\ active_checks' = IF checks = <<>> THEN default_checks ELSE checks
  /\ qpc' = "run_checks"
  /\ UNCHANGED <<flights, checks, results, report>>
  /\ UNCHANGED normalizer_vars
  /\ UNCHANGED repository_vars

\* one turn of the loop of run_checks: the next check runs and its result is
\* appended; an exception of the check leaves run_checks and run_pipeline
RunCheck ==
  /\ qpc = "run_checks"
  /\ Len(results) < Len(active_checks)
  /\ LET outcome == RunCheckNamed(active_checks[Len(results) + 1], flights)
     IN IF outcome.status = "raised"
        THEN /\ report' = outcome
             /\ qpc' = "raised"
             /\ UNCHANGED results
        ELSE /\ results' = Append(results, outcome)
             /\ UNCHANGED <<report, qpc>>
  /\ UNCHANGED <<flights, checks, active_checks>>
  /\ UNCHANGED normalizer_vars
  /\ UNCHANGED repository_vars

\* run_checks returns; the status, the entries, the issues and the counts
\* are computed and the report is built
BuildReport ==
  /\ qpc = "run_checks"
  /\ Len(results) = Len(active_checks)
  /\ report' = QualityReport(dataset, results)
  /\ qpc' = "reported"
  /\ UNCHANGED <<flights, checks, active_checks, results>>
  /\ UNCHANGED normalizer_vars
  /\ UNCHANGED repository_vars

QualityNext == StartPipeline \/ RunCheck \/ BuildReport

QualitySpec == QualityInit /\ [][QualityNext]_vars
-----------------------------------------------------------------------------
(* quality/app/repository.py and geo/app: the rows the two pipelines write *)

\* a variant of fetch_dataset_version_id that falls back to the first version
\* when the name is unknown instead of raising
fetch_dataset_version_id_defaulting(database, version_name) ==
  LET ids == {id \in DOMAIN database.dataset_version :
                database.dataset_version[id].version_name = version_name}
  IN IF ids = {}
     THEN [status |-> "ok", id |-> 1]
     ELSE [status |-> "ok", id |-> CHOOSE id \in ids : \A other \in ids : id <= other]

\* QualityRepository.fetch_dataset_version_id(conn, version_name), and
\* GeoRepository's: the id of the version, or the ValueError it raises
fetch_dataset_version_id(database, version_name) ==
  LET ids == {id \in DOMAIN database.dataset_version :
                database.dataset_version[id].version_name = version_name}
  IN IF ids = {}
     THEN [status |-> "raised", error |-> "ValueError",
           message |-> "dataset_version '" \o version_name \o "' not found"]
     ELSE [status |-> "ok", id |-> CHOOSE id \in ids : \A other \in ids : id <= other]

\* QualityRepository.replace_quality_reports(conn, dataset_version_id, entries)
replace_quality_reports(database, dataset_version_id, entries) ==
  [database EXCEPT !.quality_report =
     {row \in @ : row.dataset_version_id # dataset_version_id}
     \cup {[dataset_version_id |-> dataset_version_id,
            region_id |-> Null,
            check_name |-> entries[n].check_name,
            severity |-> entries[n].severity,
            details |-> entries[n].payload] : n \in 1..Len(entries)}]

\* QualityRepository.replace_flight_quality_issues: clear_flight_quality_issues
\* deletes every issue of the dataset version, insert_flight_quality_issues
\* writes the given ones
replace_flight_quality_issues(database, dataset_version_id, issues) ==
  [database EXCEPT !.flight_quality_issues =
     {row \in @ : row.dataset_version_id # dataset_version_id}
     \cup {[dataset_version_id |-> dataset_version_id,
            flight_uid |-> issues[n].flight_uid,
            check_name |-> issues[n].check_name,
            severity |-> issues[n].severity,
            details |-> issues[n].details] : n \in 1..Len(issues)}]

\* QualityRepository.update_dataset_version (validated_at is a clock reading)
update_dataset_version(database, dataset_version_id, status, warn_count, fail_count) ==
  [database EXCEPT !.dataset_version[dataset_version_id] =
     [@ EXCEPT !.status = status, !.validated_at = "NOW()",
               !.quality_warn_count = warn_count,
               !.quality_fail_count = fail_count]]

GEO_CHECK_NAME == "geo.unresolved_location"

\* GeoRepository.replace_quality_issues_for_check
replace_quality_issues_for_check(database, dataset_version_id, check_name, issues) ==
  [database EXCEPT !.flight_quality_issues =
     {row \in @ : \/ row.dataset_version_id # dataset_version_id
                  \/ row.check_name # check_name}
     \cup {[dataset_version_id |-> dataset_version_id,
            flight_uid |-> issues[n].flight_uid,
            check_name |-> check_name,
            severity |-> issues[n].severity,
            details |-> issues[n].details] : n \in 1..Len(issues)}]

\* GeoPipeline.run on the candidates load_flight_candidates returns, when
\* resolve_region finds a region for every located candidate (found) or for
\* none: the issues and the resolved flights, written in one transaction
\* (candidates carry no payload_flight_id; the region_id column of
\* flights_norm, which the run also rewrites, is not part of the database here)
GeoPipelineRun(database, dataset_version_id, candidates, found) ==
  LET reason(c) ==
        IF c.latitude = Null \/ c.longitude = Null THEN "missing_coordinates"
        ELSE IF c.latitude.n = 0 \/ c.longitude.n = 0 THEN "zero_coordinates"
        ELSE IF ~found THEN "no_region_match"
        ELSE "resolved"
      unresolved == SelectSeq(candidates, LAMBDA c : reason(c) # "resolved")
      quality_issues ==
        [n \in 1..Len(unresolved) |->
           [flight_uid |-> unresolved[n].flight_uid, severity |-> "fail",
            details |-> [reason |-> reason(unresolved[n]),
                         latitude |-> unresolved[n].latitude,
                         longitude |-> unresolved[n].longitude]]]
      resolved_records ==
        {[dataset_version_id |-> dataset_version_id,
          flight_uid |-> candidates[n].flight_uid] :
           n \in {m \in 1..Len(candidates) : reason(candidates[m]) = "resolved"}}
      cleared == [database EXCEPT !.flights_geo =
                    {row \in @ : row.dataset_version_id # dataset_version_id}
                    \cup resolved_records]
  IN replace_quality_issues_for_check(cleared, dataset_version_id,
                                      GEO_CHECK_NAME, quality_issues)

-----------------------------------------------------------------------------
(* The state machine of a persisting run: run_pipeline with a repository,  *)
(* and the geo pipeline running before or after it on the same database.   *)

\* the most runs of the geo pipeline in a behaviour
MaxGeoRuns == 1

\* a dataset_version row
VersionRow(version_name) ==
  [version_name |-> version_name, status |-> "normalized", validated_at |-> "never",
   quality_warn_count |-> 0, quality_fail_count |-> 0]

\* the databases a run starts from: versions 2024-01 (id 1) and 2023-12
\* (id 2), without quality rows or with rows of earlier runs of both pipelines
Databases ==
  LET versions == <<VersionRow("2024-01"), VersionRow("2023-12")>>
      issue(id, uid, name) ==
        [dataset_version_id |-> id, flight_uid |-> uid, check_name |-> name,
         severity |-> IF name = GEO_CHECK_NAME THEN "fail" ELSE "FAIL",
         details |-> [summary |-> "earlier run"]]
      entry(id, name) ==
        [dataset_version_id |-> id, region_id |-> Null, check_name |-> name,
         severity |-> "FAIL", details |-> [summary |-> "earlier run"]]
  IN {[EmptyDatabase EXCEPT !.dataset_version = versions],
      [EmptyDatabase EXCEPT
         !.dataset_version = versions,
         !.quality_report = {entry(1, "schema"), entry(2, "schema")},
         !.flight_quality_issues =
           {issue(1, "F9", "duration_range"), issue(1, "F9", GEO_CHECK_NAME),
            issue(2, "B1", "uniqueness"), issue(2, "B1", GEO_CHECK_NAME)}]}

\* the tables of flights a persisting run validates
PersistInputs ==
  {FlightTable(CANONICAL_ORDER, <<>>),
   FlightTable(CANONICAL_ORDER, Fleet(2, Num(-5))),
   FlightTable(CANONICAL_ORDER, Fleet(1, Num(30))),
   FlightTable(CANONICAL_ORDER, Fleet(1, Null))}

\* what load_flight_candidates may return for a dataset version
GeoCandidates ==
  LET candidate(uid, lat, lon) ==
        [flight_uid |-> uid, latitude |-> lat, longitude |-> lon]
  IN {<<>>,
      <<candidate("F1", Null, Num(37))>>,
      <<candidate("F1", Num(55), Num(37))>>,
      <<candidate("F1", Num(0), Num(0)), candidate("F2", Num(55), Num(37))>>}

PersistInit ==
  /\ data = NoFrame
  /\ report_timezone = NoTz
  /\ pc = "idle"
  /\ prepared = NoFrame
  /\ result = NoResult
  /\ previous = NoResult
  /\ flights \in PersistInputs
  /\ checks \in {<<>>, <<"duration_range">>}
  /\ active_checks = <<>>
  /\ results = <<>>
  /\ report = NoReport
  /\ qpc = "start"
  /\ dataset \in {"", "2024-01", "2023-12", "2099-12"}
  /\ repository \in BOOLEAN
  /\ dry_run \in BOOLEAN
  /\ db \in Databases
  /\ conn = NoConnection
  /\ oplog = <<>>

\* a variant of Connect that persists on a dry run too
ConnectIgnoringDryRun ==
  /\ qpc = "reported"
  /\ repository /\ dataset # ""
  /\ conn' = [state |-> "open", view |-> db]
  /\ oplog' = Append(oplog, <<"connection">>)
  /\ qpc' = "connected"
  /\ UNCHANGED <<dataset, repository, dry_run, db>>
  /\ UNCHANGED <<flights, checks, active_checks, results, report>>
  /\ UNCHANGED normalizer_vars

\* "if repository and not dry_run and dataset": with repository.connection()
Connect ==
  /\ qpc = "reported"
  /\ repository /\ ~dry_run /\ dataset # ""
  /\ conn' = [state |-> "open", view |-> db]
  /\ oplog' = Append(oplog, <<"connection">>)
  /\ qpc' = "connected"
  /\ UNCHANGED <<dataset, repository, dry_run, db>>
  /\ UNCHANGED <<flights, checks, active_checks, results, report>>
  /\ UNCHANGED normalizer_vars

\* the two other branches: nothing is persisted, the report is returned
SkipPersistence ==
  /\ qpc = "reported"
  /\ ~(repository /\ ~dry_run /\ dataset # "")
  /\ qpc' = "returned"
  /\ UNCHANGED repository_vars
  /\ UNCHANGED <<flights, checks, active_checks, results, report>>
  /\ UNCHANGED normalizer_vars

\* dataset_id = repository.fetch_dataset_version_id(conn, dataset); its
\* ValueError leaves the with block (rollback, close) and run_pipeline
FetchDatasetVersionId ==
  /\ qpc = "connected"
  /\ LET found == fetch_dataset_version_id(conn.view, dataset)
     IN IF found.status = "raised"
        THEN /\ conn' = NoConnection
             /\ report' = found
             /\ qpc' = "raised"
        ELSE /\ conn' = [state |-> "open", view |-> conn.view, dataset_id |-> found.id]
             /\ qpc' = "resolved"
             /\ UNCHANGED report
  /\ oplog' = Append(oplog, <<"fetch_dataset_version_id", dataset>>)
  /\ UNCHANGED <<dataset, repository, dry_run, db>>
  /\ UNCHANGED <<flights, checks, active_checks, results>>
  /\ UNCHANGED normalizer_vars

\* repository.replace_quality_reports(conn, dataset_id, entries)
ReplaceQualityReports ==
  /\ qpc = "resolved"
  /\ conn' = [conn EXCEPT !.view =
                replace_quality_reports(@, conn.dataset_id, report.entries)]
  /\ oplog' = Append(oplog, <<"replace_quality_reports", conn.dataset_id>>)
  /\ qpc' = "reports_replaced"
  /\ UNCHANGED <<dataset, repository, dry_run, db>>
  /\ UNCHANGED <<flights, checks, active_checks, results, report>>
  /\ UNCHANGED normalizer_vars

\* repository.replace_flight_quality_issues(conn, dataset_id, flight_issues)
ReplaceFlightQualityIssues ==
  /\ qpc = "reports_replaced"
  /\ conn' = [conn EXCEPT !.view =
                replace_flight_quality_issues(@, conn.dataset_id,
                                              report.flight_issues)]
  /\ oplog' = Append(oplog, <<"replace_flight_quality_issues", conn.dataset_id>>)
  /\ qpc' = "issues_replaced"
  /\ UNCHANGED <<dataset, repository, dry_run, db>>
  /\ UNCHANGED <<flights, checks, active_checks, results, report>>
  /\ UNCHANGED normalizer_vars

\* repository.update_dataset_version(conn, dataset_id, status=quality_status,
\* warn_count=warn_count, fail_count=fail_count)
UpdateDatasetVersion ==
  /\ qpc = "issues_replaced"
  /\ conn' = [conn EXCEPT !.view =
                update_dataset_version(@, conn.dataset_id, report.quality_status,
                                       report.warn_count, report.fail_count)]
  /\ oplog' = Append(oplog, <<"update_dataset_version", conn.dataset_id,
                              report.quality_status, report.warn_count,
                              report.fail_count>>)
  /\ qpc' = "version_updated"
  /\ UNCHANGED <<dataset, repository, dry_run, db>>
  /\ UNCHANGED <<flights, checks, active_checks, results, report>>
  /\ UNCHANGED normalizer_vars

\* the with block ends: conn.commit(), conn.close(); return report
Commit ==
  /\ qpc = "version_updated"
  /\ db' = conn.view
  /\ conn' = NoConnection
  /\ qpc' = "returned"
  /\ UNCHANGED <<dataset, repository, dry_run, oplog>>
  /\ UNCHANGED <<flights, checks, active_checks, results, report>>
  /\ UNCHANGED normalizer_vars

\* GeoPipeline.run(conn, dataset_version_id) by the geo agent, while the
\* quality run holds no open transaction
GeoRun ==
  /\ conn = NoConnection
  /\ Cardinality({n \in 1..Len(oplog) : oplog[n][1] = "geo.run"}) < MaxGeoRuns
  /\ \E dataset_version_id \in DOMAIN db.dataset_version,
        candidates \in GeoCandidates, found \in BOOLEAN :
       /\ db' = GeoPipelineRun(db, dataset_version_id, candidates, found)
       /\ oplog' = Append(oplog, <<"geo.run", dataset_version_id>>)
  /\ UNCHANGED <<dataset, repository, dry_run, conn>>
  /\ UNCHANGED quality_vars
  /\ UNCHANGED normalizer_vars

PersistNext ==
  \/ StartPipeline \/ RunCheck \/ BuildReport
  \/ Connect \/ SkipPersistence \/ FetchDatasetVersionId
  \/ ReplaceQualityReports \/ ReplaceFlightQualityIssues
  \/ UpdateDatasetVersion \/ Commit
  \/ GeoRun

PersistSpec == PersistInit /\ [][PersistNext]_vars



-----------------------------------------------------------------------------
(* Properties of the quality checks and of run_pipeline                    *)

\* the statuses that occur in a list of results
StatusesOf(given) == {given[n].status : n \in 1..Len(given)}

\* the worst status of a list of results
WorstStatus(given) ==
  IF "FAIL" \in StatusesOf(given) THEN "FAIL"
  ELSE IF "WARN" \in StatusesOf(given) THEN "WARN"
  ELSE "OK"

\* every ordering of a list
Orderings(given) ==
  {[n \in 1..Len(given) |-> given[p[n]]] : p \in Permutations(1..Len(given))}

\* C11: aggregate_status returns FAIL iff some result is FAIL, WARN iff none
\* is FAIL and some is WARN, OK otherwise, the empty list included, and the
\* same for every ordering of the results.
C11_AggregationLaw ==
  qpc = "reported" =>
    /\ report.status = WorstStatus(results)
    /\ \A ordering \in Orderings(results) :
         aggregate_status(ordering) = report.status
    /\ aggregate_status(<<>>) = "OK"

\* a run whose first check warned and whose second check failed
C11_Witness ==
  /\ qpc = "reported"
  /\ Len(results) = 2
  /\ results[1].status = "WARN"
  /\ results[2].status = "FAIL"
  /\ report.status = "FAIL"

\* C12: run_checks returns one CheckResult per active check, in list order,
\* for every table: no check raises.
C12_EveryCheckReports ==
  /\ qpc # "raised"
  /\ qpc = "reported" =>
       /\ Len(results) = Len(active_checks)
       /\ \A n \in 1..Len(results) : results[n].name = active_checks[n]

\* the rows of the loaded table whose duration is non-null and out of range
DurationsOutOfRange ==
  {i \in 1..Len(flights.rows) :
     /\ flights.rows[i]["duration_minutes"] # Null
     /\ \/ flights.rows[i]["duration_minutes"].n < 1
        \/ flights.rows[i]["duration_minutes"].n > 1440}

\* the outcomes of the runs of the named check so far: its results and, when
\* it was the check that raised, what it raised
OutcomesOf(name) ==
  {results[n] : n \in {m \in 1..Len(results) : results[m].name = name}}
  \cup (IF qpc = "raised" /\ active_checks[Len(results) + 1] = name
        THEN {report} ELSE {})

\* C13: on a table with a duration_minutes column, null durations allowed,
\* DurationRangeCheck returns FAIL iff some non-null duration is below 1 or
\* above 1440 and OK otherwise, with invalid_count the number of such rows;
\* a FAIL makes the overall status FAIL.
C13_DurationRange ==
  Has(flights, "duration_minutes") =>
    /\ \A outcome \in OutcomesOf("duration_range") :
         /\ outcome.status = IF DurationsOutOfRange # {} THEN "FAIL" ELSE "OK"
         /\ outcome.details["invalid_count"] = Cardinality(DurationsOutOfRange)
    /\ (qpc = "reported" /\ OutcomesOf("duration_range") # {}
          /\ DurationsOutOfRange # {}) => report.status = "FAIL"

\* the canonical columns the loaded table lacks
MissingCanonical == Range(CANONICAL_ORDER) \ Range(flights.columns)

\* the number of rows of the loaded table with a null in a column
NullsIn(field) ==
  Cardinality({i \in 1..Len(flights.rows) : flights.rows[i][field] = Null})

\* the non-nullable fields present in the loaded table that hold a null
FieldsWithNulls ==
  {field \in {"flight_id", "start_time_utc", "end_time_utc", "duration_minutes"}
             \cap Range(flights.columns) : NullsIn(field) > 0}

\* C14: SchemaCheck returns FAIL iff a canonical column is missing or a
\* present non-nullable field holds a null, WARN iff it is not FAIL and the
\* table has a column outside the canonical set, OK otherwise; null_counts
\* lists exactly the non-nullable fields with a positive null count.
C14_SchemaCheck ==
  \A outcome \in OutcomesOf("schema") :
    /\ outcome.status =
         IF MissingCanonical # {} \/ FieldsWithNulls # {} THEN "FAIL"
         ELSE IF Range(flights.columns) \ Range(CANONICAL_ORDER) # {} THEN "WARN"
         ELSE "OK"
    /\ IF FieldsWithNulls = {}
       THEN "null_counts" \notin DOMAIN outcome.details
       ELSE outcome.details["null_counts"]
              = [field \in FieldsWithNulls |-> NullsIn(field)]

\* a table with every canonical column and one more, failed for its null
\* durations and flight ids
C14_Witness ==
  \E outcome \in OutcomesOf("schema") :
    /\ outcome.status = "FAIL"
    /\ MissingCanonical = {}
    /\ "unexpected_columns" \in DOMAIN outcome.details
    /\ DOMAIN outcome.details["null_counts"] = {"duration_minutes", "flight_id"}

\* the rows of the loaded table with an out-of-range coordinate
CoordinatesOutOfRange ==
  {i \in 1..Len(flights.rows) :
     \/ /\ flights.rows[i]["latitude"] # Null
        /\ \/ flights.rows[i]["latitude"].n < -90
           \/ flights.rows[i]["latitude"].n > 90
     \/ /\ flights.rows[i]["longitude"] # Null
        /\ \/ flights.rows[i]["longitude"].n < -180
           \/ flights.rows[i]["longitude"].n > 180}

\* C15: CoordinateRangeCheck returns WARN when the latitude/longitude columns
\* are absent (also when only one of the two is); with both present it returns
\* FAIL iff some row has a non-null latitude outside [-90, 90] or a non-null
\* longitude outside [-180, 180], with invalid_count the number of such rows,
\* and OK otherwise; a FAIL makes the overall status FAIL.
C15_CoordinateRange ==
  /\ \A outcome \in OutcomesOf("coordinate_range") :
       IF ~Has(flights, "latitude") \/ ~Has(flights, "longitude")
       THEN outcome.status = "WARN"
       ELSE IF CoordinatesOutOfRange # {}
       THEN /\ outcome.status = "FAIL"
            /\ outcome.details["invalid_count"] = Cardinality(CoordinatesOutOfRange)
       ELSE outcome.status = "OK"
  /\ (qpc = "reported" /\ \E outcome \in OutcomesOf("coordinate_range") :
                            outcome.status = "FAIL")
       => report.status = "FAIL"

\* a finished run on a table whose single row has latitude 120
C15_Witness ==
  /\ qpc = "reported"
  /\ Len(flights.rows) = 1
  /\ Has(flights, "latitude") /\ Has(flights, "longitude")
  /\ flights.rows[1]["latitude"] = Num(120)
  /\ \E outcome \in OutcomesOf("coordinate_range") :
       outcome.status = "FAIL" /\ outcome.details["invalid_count"] = 1
  /\ report.status = "FAIL"

\* the rows of the loaded table whose (flight_id, start_time_utc, region_code)
\* occurs in another row too
RepeatedKeys ==
  {i \in 1..Len(flights.rows) :
     \E j \in 1..Len(flights.rows) :
       /\ j # i
       /\ \A column \in {"flight_id", "start_time_utc", "region_code"} :
            flights.rows[j][column] = flights.rows[i][column]}

\* C16: UniquenessCheck returns FAIL iff some (flight_id, start_time_utc,
\* region_code) occurs in more than one row, whatever the superseded flags,
\* and when a key column is missing; OK otherwise; duplicate_count is the
\* number of rows that belong to a repeated combination.
C16_Uniqueness ==
  \A outcome \in OutcomesOf("uniqueness") :
    IF {"flight_id", "start_time_utc", "region_code"} \ Range(flights.columns) # {}
    THEN outcome.status = "FAIL"
    ELSE IF RepeatedKeys # {}
    THEN /\ outcome.status = "FAIL"
         /\ outcome.details["duplicate_count"] = Cardinality(RepeatedKeys)
    ELSE outcome.status = "OK"

\* two rows with one key, one of them superseded and the other not
C16_Witness ==
  /\ Len(flights.rows) = 2
  /\ RepeatedKeys = {1, 2}
  /\ flights.rows[1]["superseded"] # flights.rows[2]["superseded"]
  /\ \E outcome \in OutcomesOf("uniqueness") :
       outcome.status = "FAIL" /\ outcome.details["duplicate_count"] = 2

\* the years and, per year, the months in which a flight of the loaded table
\* starts
YearsObserved ==
  {YearOf(flights.rows[i]["start_time_utc"].sec) : i \in 1..Len(flights.rows)}

MonthsObserved(year) ==
  {MonthOf(flights.rows[i]["start_time_utc"].sec) :
     i \in {j \in 1..Len(flights.rows) :
              YearOf(flights.rows[j]["start_time_utc"].sec) = year}}

\* the months of a year that lie between two observed months and are not
\* observed
Gaps(year) ==
  {m \in 1..12 :
     /\ m \notin MonthsObserved(year)
     /\ \E a, b \in MonthsObserved(year) : a < m /\ m < b}

\* C17: on a table with start_time_utc, MonthlyCompletenessCheck returns FAIL
\* if some start is null or no date; otherwise WARN iff the observed months of
\* some year have a gap, reporting for each such year exactly the missing
\* months in ascending order, and OK otherwise.
C17_MonthlyCompleteness ==
  Has(flights, "start_time_utc") =>
    \A outcome \in OutcomesOf("monthly_completeness") :
      IF \E i \in 1..Len(flights.rows) :
           flights.rows[i]["start_time_utc"].k # "datetime"
      THEN outcome.status = "FAIL"
      ELSE IF \E year \in YearsObserved : Gaps(year) # {}
      THEN /\ outcome.status = "WARN"
           /\ DOMAIN outcome.details["missing_months"]
                = {year \in YearsObserved : Gaps(year) # {}}
           /\ \A year \in DOMAIN outcome.details["missing_months"] :
                LET listed == outcome.details["missing_months"][year] IN
                  /\ Range(listed) = Gaps(year)
                  /\ \A a, b \in 1..Len(listed) : a < b => listed[a] < listed[b]
      ELSE outcome.status = "OK"

\* flights in January and March 2024 only: February is reported missing
C17_Witness ==
  /\ Len(flights.rows) = 2
  /\ Has(flights, "start_time_utc")
  /\ flights.rows[1]["start_time_utc"] = Datetime(HMS(10, 0, 0), 0, "UTC")
  /\ flights.rows[2]["start_time_utc"]
       = Datetime(60 * 86400 + HMS(10, 0, 0), 0, "UTC")
  /\ \E outcome \in OutcomesOf("monthly_completeness") :
       /\ outcome.status = "WARN"
       /\ outcome.details["missing_months"] = (2024 :> <<2>>)

\* C18: DurationOutlierCheck never returns FAIL; it returns WARN when the
\* duration column is absent or holds no non-null value.
C18_OutliersNeverFail ==
  \A outcome \in OutcomesOf("duration_outliers") :
    /\ outcome.status # "FAIL"
    /\ (~Has(flights, "duration_minutes")
          \/ \A i \in 1..Len(flights.rows) :
               flights.rows[i]["duration_minutes"] = Null)
         => outcome.status = "WARN"

\* the rows of the loaded table that a check flags as offending, for the
\* three checks that flag single rows by a value of theirs
FlaggedBy(name) ==
  CASE name = "duration_range" -> DurationsOutOfRange
    [] name = "coordinate_range" -> CoordinatesOutOfRange
    [] name = "uniqueness" -> RepeatedKeys

\* the flight ids of the flagged rows that have one
FlaggedIds(name) ==
  {flights.rows[i]["flight_id"].s :
     i \in {j \in FlaggedBy(name) : flights.rows[j]["flight_id"] # Null}}

\* the issues of the report that a check gave rise to
IssuesOf(name) ==
  {n \in 1..Len(report.flight_issues) : report.flight_issues[n].check_name = name}

\* C19: the report has exactly one issue for each (flight, check) pair where
\* the check is WARN or FAIL and flagged a record of that flight, however many
\* records the check flagged, and no issue for a check whose status is OK.
C19_IssuePerFlaggedRecord ==
  qpc = "reported" =>
    \A n \in 1..Len(results) :
      IF results[n].status = "OK"
      THEN IssuesOf(results[n].name) = {}
      ELSE (/\ results[n].name \in {"duration_range", "coordinate_range", "uniqueness"}
            /\ DOMAIN results[n].details
                 \cap {"invalid_count", "duplicate_count"} # {})
             => /\ {report.flight_issues[k].flight_uid : k \in IssuesOf(results[n].name)}
                     = FlaggedIds(results[n].name)
                /\ Cardinality(IssuesOf(results[n].name))
                     = Cardinality(FlaggedIds(results[n].name))

\* the number of results of the report with a status
CountOf(status) ==
  Cardinality({n \in 1..Len(report.checks) : report.checks[n].status = status})

\* C20: every report of run_pipeline is consistent: warn_count and fail_count
\* count the WARN and FAIL results, status is FAIL iff fail_count > 0, WARN
\* iff fail_count = 0 and warn_count > 0, OK iff both are 0, and
\* quality_status is quality_fail, quality_warn or validated respectively.
C20_ReportConsistency ==
  qpc = "reported" =>
    /\ report.checks = results
    /\ report.warn_count = CountOf("WARN")
    /\ report.fail_count = CountOf("FAIL")
    /\ report.status = "FAIL" <=> report.fail_count > 0
    /\ report.status = "WARN" <=> (report.fail_count = 0 /\ report.warn_count > 0)
    /\ report.status = "OK" <=> (report.fail_count = 0 /\ report.warn_count = 0)
    /\ report.quality_status =
         CASE report.status = "FAIL" -> "quality_fail"
           [] report.status = "WARN" -> "quality_warn"
           [] report.status = "OK" -> "validated"

\* a report of the whole suite with warnings and no failure
C20_Witness ==
  /\ qpc = "reported"
  /\ Len(report.checks) = Len(default_checks)
  /\ report.warn_count > 0
  /\ report.fail_count = 0
  /\ report.quality_status = "quality_warn"

\* C21: on the empty canonical table that normalize_records returns for a
\* zero-row input, no check of the default suite raises, each returns OK or
\* WARN, and the coordinate-range check returns WARN.
C21_EmptyTableValidation ==
  (flights = EmptyTable /\ checks = <<>>) =>
    /\ qpc # "raised"
    /\ \A n \in 1..Len(results) : results[n].status \in {"OK", "WARN"}
    /\ \A outcome \in OutcomesOf("coordinate_range") : outcome.status = "WARN"

\* C23: a row whose only defect is an out-of-range latitude or longitude is
\* not removed by normalize_records: it is in the output with the violating
\* axis null and the valid axis kept.
C23_CoordinateHealing ==
  Returns =>
    \A i \in 1..Len(prepared.rows) :
      (/\ prepared.rows[i]["start_time_utc"] # Null
       /\ prepared.rows[i]["end_time_utc"] # Null
       /\ ~DatetimeLess(prepared.rows[i]["end_time_utc"],
                        prepared.rows[i]["start_time_utc"])
       /\ prepared.rows[i]["_invalid_coord"] = Bool(TRUE))
      => \E j \in 1..Len(OutputRows) :
           \A c \in Range(CANONICAL_ORDER) \ {"superseded"} :
             OutputRows[j][c] = prepared.rows[i][c]

\* (end - start) in minutes, rounded to the nearest whole minute as Python's
\* round does, for end >= start
RoundedMinutes(start, end) ==
  LET borrow == IF end.us < start.us THEN 1 ELSE 0
      seconds == (end.sec - start.sec) - borrow
      micros == (end.us - start.us) + borrow * 1000000
      minutes == seconds \div 60
      rest == seconds % 60
  IN IF rest < 30 THEN minutes
     ELSE IF rest > 30 \/ micros > 0 THEN minutes + 1
     ELSE IF minutes % 2 = 0 THEN minutes      \* an exact half: to the even
     ELSE minutes + 1

\* C24: a supplied duration that parses as a number is kept unchanged; when it
\* is absent, null, empty or non-numeric, duration_minutes is end_time_utc -
\* start_time_utc in minutes, rounded to the nearest whole minute.
C24_DurationResolution ==
  (Returns /\ pc = "normalized") =>
    \A j \in 1..Len(OutputRows) :
      LET supplied == CastFloat64(SourceCell(ValidPositions[j], "duration_minutes"))
      IN OutputRows[j]["duration_minutes"] =
           IF supplied # Null THEN supplied
           ELSE Num(RoundedMinutes(OutputRows[j]["start_time_utc"],
                                   OutputRows[j]["end_time_utc"]))

\* the UTC instant of a raw start or end value under a timezone hint: the
\* value's own offset when it carries one, else the hint's, else none
ResolvedUtc(cell, hint) ==
  IF cell = Null \/ ~PendulumParse(StripText(cell.s)).ok THEN Null
  ELSE LET parsed == PendulumParse(StripText(cell.s))
           east == IF parsed.utcoffset = "+03:00" THEN 3 * 3600
                   ELSE IF parsed.utcoffset = "naive" /\ hint = "Europe/Moscow"
                   THEN 3 * 3600
                   ELSE 0
       IN Datetime(parsed.sec - east, parsed.us, "UTC")

\* C25: a start or end value with an explicit offset is converted to UTC by
\* that offset whatever the hint; a value without offset is read in the hint's
\* timezone when one is given and as UTC otherwise; empty or unparseable text
\* gives null, and the row is then invalid and not in the output.
C25_TimestampResolution ==
  (pc = "normalized" /\ result.status = "ok") =>
    \A i \in 1..Len(prepared.rows) :
      /\ prepared.rows[i]["start_time_utc"]
           = ResolvedUtc(SourceCell(i, "start_time"), report_timezone)
      /\ prepared.rows[i]["end_time_utc"]
           = ResolvedUtc(SourceCell(i, "end_time"), report_timezone)
      /\ (prepared.rows[i]["start_time_utc"] = Null
            \/ prepared.rows[i]["end_time_utc"] = Null)
           => /\ ~RowIsValid(prepared.rows[i])
              /\ result.counters.invalid > 0
              /\ Len(OutputRows) < Len(prepared.rows)

\* under the hint Europe/Moscow, 10:00 without offset became 07:00 UTC
C25_Witness ==
  /\ pc = "normalized"
  /\ result.status = "ok"
  /\ report_timezone = "Europe/Moscow"
  /\ Len(OutputRows) = 1
  /\ SourceCell(1, "start_time") = Str("2024-01-01 10:00")
  /\ OutputRows[1]["start_time_utc"] = Datetime(HMS(7, 0, 0), 0, "UTC")

\* the headers of the raw table whose normalized name is no key of the alias
\* map and no canonical field name
UnknownHeaders ==
  {h \in Range(data.columns) :
     /\ NormalizedHeader[h] \notin DOMAIN REVERSE_COLUMN_MAP
     /\ \A c \in Range(CANONICAL_ORDER) : NormalizedHeader[h] # Spelling(c)}

\* C26: a source column with an unknown header is not in the mapping of
\* normalize_columns, and normalize_records gives what it gives for the same
\* table without that column: no error of its own, no value in a canonical
\* column, no column in the output.
C26_UnknownHeaders ==
  pc = "normalized" =>
    \A h \in UnknownHeaders :
      /\ h \notin DOMAIN normalize_columns(data.columns)
      /\ LET without == DropColumns(data, {h})
         IN normalize_records(without, PreparedOf(without, report_timezone))
              = result
      /\ result.status = "ok" => h \notin Range(result.table.columns)

\* a table with a Comment column was normalized to one output row
C26_Witness ==
  /\ pc = "normalized"
  /\ "Comment" \in UnknownHeaders
  /\ result.status = "ok"
  /\ Len(OutputRows) = 1

\* the non-empty texts of a column in the row samples of a result's details
SampledTexts(given, column) ==
  IF "sample_rows" \notin DOMAIN given.details THEN {}
  ELSE {given.details["sample_rows"][i][column].s :
          i \in {j \in 1..Len(given.details["sample_rows"]) :
                   /\ column \in DOMAIN given.details["sample_rows"][j]
                   /\ given.details["sample_rows"][j][column] \notin {Null, Str("")}}}

\* a payload's list under a key is the duplicate-free sorted list of a set of
\* texts, and is absent when the set is empty
ListsExactly(payload, key, texts) ==
  IF texts = {} THEN key \notin DOMAIN payload
  ELSE /\ key \in DOMAIN payload
       /\ Range(payload[key]) = texts
       /\ \A a, b \in 1..Len(payload[key]) :
            a < b => IndexOf(SortedTexts, payload[key][a])
                       < IndexOf(SortedTexts, payload[key][b])

\* C27: summarise_results gives one entry per result, in order, with the
\* check's name, its status as severity and a payload with its summary and,
\* when present, its details; impacted_regions and impacted_records are the
\* duplicate-free sorted non-empty region_code and flight_id values of the
\* row samples in the details.
C27_Entries ==
  qpc = "reported" =>
    /\ Len(report.entries) = Len(results)
    /\ \A n \in 1..Len(results) :
         LET entry == report.entries[n] IN
           /\ entry.check_name = results[n].name
           /\ entry.severity = results[n].status
           /\ entry.payload["summary"] = results[n].summary
           /\ IF results[n].details = <<>>
              THEN "details" \notin DOMAIN entry.payload
              ELSE entry.payload["details"] = results[n].details
           /\ ListsExactly(entry.payload, "impacted_regions",
                           SampledTexts(results[n], "region_code"))
           /\ ListsExactly(entry.payload, "impacted_records",
                           SampledTexts(results[n], "flight_id"))
           /\ DOMAIN entry.payload \subseteq
                {"summary", "details", "impacted_regions", "impacted_records"}

\* an entry whose samples name several flights of one region
C27_Witness ==
  /\ qpc = "reported"
  /\ \E n \in 1..Len(report.entries) :
       /\ "impacted_records" \in DOMAIN report.entries[n].payload
       /\ Len(report.entries[n].payload["impacted_records"]) > 1
       /\ "impacted_regions" \in DOMAIN report.entries[n].payload
       /\ Len(report.entries[n].payload["impacted_regions"]) = 1

\* C29: the uniqueness check on the canonical output of normalize_records
\* returns OK if and only if counters.duplicates is 0.
C29_UniquenessAgreesWithDedup ==
  pc = "validated" =>
    (results[1].status = "OK" <=> result.counters.duplicates = 0)

\* the repository operations of the quality run so far, in order
QualityOperations == SelectSeq(oplog, LAMBDA e : e[1] # "geo.run")

\* C22: when the dataset-version name does not resolve, the fetch raises a
\* ValueError naming the version, run_pipeline ends with that error, and the
\* run writes nothing: the database is as it was and no replace or update
\* operation is ever performed.
C22_MissingVersion ==
  /\ [][(qpc = "connected"
          /\ \A id \in DOMAIN conn.view.dataset_version :
               conn.view.dataset_version[id].version_name # dataset)
        => /\ qpc' = "raised"
           /\ report'.error = "ValueError"
           /\ report'.message = "dataset_version '" \o dataset \o "' not found"
           /\ conn' = NoConnection
           /\ db' = db]_vars
  /\ []((qpc = "raised" /\ QualityOperations # <<>>)
        => QualityOperations = <<<<"connection">>,
                                 <<"fetch_dataset_version_id", dataset>>>>)

C22_Witness ==
  /\ qpc = "raised"
  /\ dataset = "2099-12"
  /\ QualityOperations # <<>>
  /\ db.quality_report # {} /\ db.flight_quality_issues # {}

\* C28: run_pipeline writes iff a repository is given, dry_run is false and
\* the version is non-empty; it then uses one connection and the order fetch,
\* replace reports, replace issues, update the version with the report's
\* quality_status, warn_count and fail_count; otherwise it performs no
\* repository operation and still returns the report.
C28_PersistenceOrder ==
  LET writes == repository /\ ~dry_run /\ dataset # ""
      found == fetch_dataset_version_id(db, dataset)
      expected ==
        <<<<"connection">>,
          <<"fetch_dataset_version_id", dataset>>,
          <<"replace_quality_reports", found.id>>,
          <<"replace_flight_quality_issues", found.id>>,
          <<"update_dataset_version", found.id, report.quality_status,
            report.warn_count, report.fail_count>>>>
      ops == QualityOperations
  IN /\ ops # <<>> =>
          /\ writes
          /\ IF found.status = "raised"
             THEN ops = SubSeq(<<<<"connection">>,
                                 <<"fetch_dataset_version_id", dataset>>>>,
                               1, Len(ops))
             ELSE Len(ops) <= 5 /\ ops = SubSeq(expected, 1, Len(ops))
     /\ qpc = "returned" =>
          /\ report = QualityReport(dataset, results)
          /\ conn = NoConnection
          /\ IF writes
             THEN /\ ops = expected
                  /\ db.dataset_version[found.id].status = report.quality_status
                  /\ db.dataset_version[found.id].quality_warn_count = report.warn_count
                  /\ db.dataset_version[found.id].quality_fail_count = report.fail_count
                  /\ {row.check_name : row \in
                        {r \in db.quality_report : r.dataset_version_id = found.id}}
                       = {report.entries[n].check_name : n \in 1..Len(report.entries)}
             ELSE ops = <<>>
     /\ (qpc = "raised" /\ writes /\ report.error = "ValueError") =>
          found.status = "raised"

C28_Witness ==
  /\ qpc = "returned"
  /\ Len(QualityOperations) = 5
  /\ report.fail_count > 0
  /\ db.dataset_version[1].status = "quality_fail"

\* C30: the quality run and the geo run replace only the issues of their own
\* checks: a committed quality run leaves the 'geo.unresolved_location' issues
\* of its version in place, a geo run leaves the quality checks' issues in
\* place, and neither touches the issues of another dataset version.
C30_IssuesCoexist ==
  [][\A id \in DOMAIN db.dataset_version :
       LET before == {row \in db.flight_quality_issues : row.dataset_version_id = id}
           after == {row \in db'.flight_quality_issues : row.dataset_version_id = id}
           geo(rows) == {row \in rows : row.check_name = GEO_CHECK_NAME}
       IN /\ (qpc = "version_updated" /\ qpc' = "returned") =>
               IF id = conn.dataset_id
               THEN /\ geo(after) = geo(before)
                    /\ {row.flight_uid : row \in after \ geo(after)}
                         = {report.flight_issues[n].flight_uid :
                              n \in 1..Len(report.flight_issues)}
               ELSE after = before
          /\ (Len(oplog') > Len(oplog) /\ oplog'[Len(oplog')][1] = "geo.run") =>
               IF id = oplog'[Len(oplog')][2]
               THEN after \ geo(after) = before \ geo(before)
               ELSE after = before]_vars
====
